---------------------------- MODULE Spec2Model ----------------------------
(***************************************************************************)
(* Lightmap geometry baking pipeline of                                    *)
(* Source/Urho3D/Glow/LightmapGeometryBaker.cpp:                           *)
(*   - CollectModelSeams (seam detection by spatial-hashed edge matching), *)
(*   - GenerateLightmapGeometryBakingScene(s) (scene assembly, with the    *)
(*     concurrent per-model seam tasks),                                    *)
(*   - BakeLightmapGeometryBuffer(s) (offscreen render and decode).        *)
(*                                                                         *)
(* Floating-point vectors are modelled on an integer grid.  One grid unit  *)
(* is 1/UnitsPerOne, and M_LARGE_EPSILON (0.00005) is Eps grid units, so   *)
(* that two distinct points can lie within the tolerance.  Arithmetic on   *)
(* the grid is exact; rounding of the float operations is not modelled.    *)
(***************************************************************************)
EXTENDS Integers, Sequences, FiniteSets, TLC

VARIABLES
    \* ---- inputs of the bake round ----
    charts,             \* the caller's chart list
    renderPathLoads,    \* whether settings.renderPathName_ loads
    failingModels,      \* the models whose import fails
    \* ---- GenerateLightmapGeometryBakingScenes ----
    pc,                 \* position of the calling thread
    chartIdx,           \* the chart of the range-for in progress
    boundingBox,        \* local boundingBox of the chart's call
    usedModels,         \* local usedModels
    collectSeamsTasks,  \* local vector of futures: [model, state, result]
    joinIdx,            \* the task the caching loop waits for
    modelSeamsCache,    \* local hash_map model -> seams
    scene,              \* the scene under construction (nodes, camera)
    geometryId,         \* local geometryId
    seams,              \* local seams
    elemIdx,            \* the element of the replication loop
    result,             \* the vector of baking scenes returned
    numMaterialClones,  \* how many materials Clone() has created
    submitted,          \* history: CollectModelSeams submissions per model
    log,                \* the error log
    \* ---- BakeLightmapGeometryBuffers ----
    sceneIdx,           \* the scene of the range-for in progress
    framesOpen,         \* frames begun and not ended on the backend
    renderTargets,      \* the extra render targets of the current view
    readIdx,            \* the next named output to read back
    buffer,             \* the thread_local scratch buffer
    geometryBuffer,     \* local geometryBuffer of the call
    geometryBuffers,    \* the vector of geometry buffers returned
    bakeRound,          \* how many times the caller has called the baker
    previousBuffers,    \* history: the buffers the previous call returned
    \* ---- CollectModelSeams on one model (SeamSpec) ----
    seamPc,             \* "idle" | "input" | "done"
    seamModel,          \* the model handed to CollectModelSeams
    seamUvChannel,      \* the uvChannel handed to it
    seamResult,         \* the LightmapSeamVector it returned
    seamVariant,        \* how the mesh of a second call was renumbered
    seamVariantResult,  \* the LightmapSeamVector the second call returned
    edgeList            \* local geometryEdges of the LOD, once read and deduplicated

inputVars == <<charts, renderPathLoads, failingModels>>
generateVars == <<pc, chartIdx, boundingBox, usedModels, collectSeamsTasks, joinIdx,
                  modelSeamsCache, scene, geometryId, seams, elemIdx, result,
                  numMaterialClones, submitted>>
bakeVars == <<sceneIdx, framesOpen, renderTargets, readIdx, buffer, geometryBuffer,
              geometryBuffers, bakeRound, previousBuffers>>
seamVars == <<seamPc, seamModel, seamUvChannel, seamResult, seamVariant, seamVariantResult,
              edgeList>>
vars == <<inputVars, generateVars, bakeVars, seamVars, log>>

(***************************************************************************)
(* Numeric scale and tolerances                                            *)
(***************************************************************************)
\* Grid units per 1.0
UnitsPerOne == 40000
\* M_LARGE_EPSILON = 0.00005 = 2 / 40000, in grid units
Eps == 2
\* M_LARGE_VALUE = 100000000.0
LargeValue == 100000000

Abs(x) == IF x < 0 THEN -x ELSE x
Max(a, b) == IF a < b THEN b ELSE a
Min(a, b) == IF a < b THEN a ELSE b

VSub3(a, b) == <<a[1] - b[1], a[2] - b[2], a[3] - b[3]>>
VSub2(a, b) == <<a[1] - b[1], a[2] - b[2]>>

\* (v.LengthSquared() < epsilon * epsilon) for a 3-vector.  A component of
\* magnitude >= Eps already makes the sum of squares >= Eps^2, so it is
\* decided first and the squares stay small.
WithinEps3(v) ==
    /\ Abs(v[1]) < Eps /\ Abs(v[2]) < Eps /\ Abs(v[3]) < Eps
    /\ v[1] * v[1] + v[2] * v[2] + v[3] * v[3] < Eps * Eps

\* (v.LengthSquared() < epsilon * epsilon) for a 2-vector
WithinEps2(v) ==
    /\ Abs(v[1]) < Eps /\ Abs(v[2]) < Eps
    /\ v[1] * v[1] + v[2] * v[2] < Eps * Eps

\* Vector3{a, 0}.CrossProduct(Vector3{b, 0}) has the single non-zero
\* component a.x * b.y - a.y * b.x (in squared grid units).
CrossZ(a, b) == a[1] * b[2] - a[2] * b[1]

\* cross.LengthSquared() < uvEpsilonSquared.  The cross product is an area:
\* c grid-units^2 is c / UnitsPerOne^2, and the bound is Eps / UnitsPerOne.
CrossWithinEps(c) == Abs(c) < Eps * UnitsPerOne

(***************************************************************************)
(* Edges                                                                   *)
(***************************************************************************)
\* Variant: the two indices are kept in the order given
MakeOrderedIndexPair_AsGiven(firstIndex, secondIndex) == <<firstIndex, secondIndex>>

\* Return edge by two indices
MakeOrderedIndexPair(firstIndex, secondIndex) ==
    IF firstIndex < secondIndex
        THEN <<firstIndex, secondIndex>>
        ELSE <<secondIndex, firstIndex>>

\* operator< of ea::pair<unsigned, unsigned>
PairLess(a, b) == a[1] < b[1] \/ (a[1] = b[1] /\ a[2] < b[2])

RECURSIVE SortedSeqOf(_)
SortedSeqOf(S) ==
    IF S = {} THEN <<>>
    ELSE LET m == CHOOSE x \in S : \A y \in S : x = y \/ PairLess(x, y)
         IN  <<m>> \o SortedSeqOf(S \ {m})

Range(s) == {s[i] : i \in 1..Len(s)}

RECURSIVE Insert(_, _)
\* x put before the first element of the sorted sequence s that is not less
Insert(x, s) ==
    IF s = <<>> THEN <<x>>
    ELSE IF PairLess(s[1], x) THEN <<s[1]>> \o Insert(x, Tail(s))
    ELSE <<x>> \o s

\* Variant: the sequence is left in the order given
Sort_AsGiven(s) == s

RECURSIVE Sort(_)
\* ea::sort(begin, end): the elements in ascending order, equal ones kept
Sort(s) == IF s = <<>> THEN <<>> ELSE Insert(s[1], Sort(Tail(s)))

RECURSIVE Unique(_)
\* erase(ea::unique(begin, end), end): of every run of equal neighbours the
\* first one is kept
Unique(s) ==
    IF Len(s) <= 1 THEN s
    ELSE IF s[1] = s[2] THEN Unique(Tail(s))
    ELSE <<s[1]>> \o Unique(Tail(s))

\* ea::sort followed by erase(ea::unique(...))
SortUnique(s) == Unique(Sort(s))

\* Vertex of a LOD by its 0-based index
VertexAt(lod, index) == lod.vertices[index + 1]

\* The three edges of every face, in face order (before deduplication)
RawGeometryEdges(lod) ==
    LET numFaces == Len(lod.indices) \div 3
        Face(f) == LET indexA == lod.indices[f * 3 + 1]
                       indexB == lod.indices[f * 3 + 2]
                       indexC == lod.indices[f * 3 + 3]
                   IN  << MakeOrderedIndexPair(indexA, indexB),
                          MakeOrderedIndexPair(indexB, indexC),
                          MakeOrderedIndexPair(indexC, indexA) >>
    IN  [k \in 1..(3 * numFaces) |-> Face((k - 1) \div 3)[((k - 1) % 3) + 1]]

GeometryEdges(lod) == SortUnique(RawGeometryEdges(lod))

(***************************************************************************)
(* Spatial hash                                                            *)
(***************************************************************************)
AllVertices(model) ==
    UNION { UNION { Range(model.geometries[g].lods[l].vertices)
                    : l \in 1..Len(model.geometries[g].lods) }
            : g \in 1..Len(model.geometries) }

SetMin(S) == CHOOSE x \in S : \A y \in S : x <= y
SetMax(S) == CHOOSE x \in S : \A y \in S : y <= x

\* modelView.CalculateBoundingBox(): the box of all vertex positions
CalculateBoundingBox(model) ==
    LET P == {v.position : v \in AllVertices(model)}
    IN  IF P = {} THEN [defined |-> FALSE, min |-> <<0, 0, 0>>, max |-> <<0, 0, 0>>]
        ELSE [defined |-> TRUE,
              min |-> <<SetMin({p[1] : p \in P}), SetMin({p[2] : p \in P}), SetMin({p[3] : p \in P})>>,
              max |-> <<SetMax({p[1] : p \in P}), SetMax({p[2] : p \in P}), SetMax({p[3] : p \in P})>>]

\* VectorFloorToInt((position - min) / hashStep) on one axis, with
\* hashStep = max(size / M_LARGE_VALUE, positionEpsilon)
HashAxis(p, lo, size) ==
    IF size > LargeValue * Eps
        THEN ((p - lo) * LargeValue) \div size
        ELSE (p - lo) \div Eps

computeHash(position, box) ==
    LET size == VSub3(box.max, box.min)
    IN  << HashAxis(position[1], box.min[1], size[1]),
           HashAxis(position[2], box.min[2], size[2]),
           HashAxis(position[3], box.min[3], size[3]) >>

\* geometryEdgesHash: cell -> the edges one of whose endpoints hashes to the
\* cell.  A bucket is only ever read into candidatesBuffer, which is sorted
\* and deduplicated, so the order and multiplicity of its entries are not kept.
GeometryEdgesHash(lod, box, geometryEdges) ==
    LET cellOf == [i \in 1..Len(lod.vertices) |-> computeHash(lod.vertices[i].position, box)]
        cells == UNION { {cellOf[geometryEdges[k][1] + 1], cellOf[geometryEdges[k][2] + 1]}
                         : k \in 1..Len(geometryEdges) }
    IN  [cell \in cells |->
            { edge \in Range(geometryEdges) :
                cellOf[edge[1] + 1] = cell \/ cellOf[edge[2] + 1] = cell }]

\* Variant: only the cell of the endpoint itself is looked up
HashOffsets_OwnCell == {<<0, 0, 0>>}

\* hashOffset.x_, .y_, .z_ each run over -1..1
HashOffsets == {<<x, y, z>> : x \in -1..1, y \in -1..1, z \in -1..1}

\* geometryEdgesHash.find(cell): the bucket, or nothing
FindBucket(geometryEdgesHash, cell) ==
    IF cell \in DOMAIN geometryEdgesHash THEN geometryEdgesHash[cell] ELSE {}

\* candidatesBuffer after sort + unique
Candidates(lod, box, geometryEdgesHash, edge) ==
    SortedSeqOf(
        UNION { LET hashPosition == computeHash(VertexAt(lod, index).position, box)
                IN  UNION { FindBucket(geometryEdgesHash,
                                <<hashPosition[1] + hashOffset[1],
                                  hashPosition[2] + hashOffset[2],
                                  hashPosition[3] + hashOffset[3]>>)
                            : hashOffset \in HashOffsets }
                : index \in {edge[1], edge[2]} })

(***************************************************************************)
(* Seam test of one (edge, candidate) pair                                 *)
(***************************************************************************)
\* Variant: the candidate is never swapped
OrientCandidate_NoSwap(lod, edge, candidate) == candidate

\* "Swap candidate vertices if needed"
OrientCandidate(lod, edge, candidate) ==
    LET candidatePos0 == VertexAt(lod, candidate[1]).position
        edgePos1 == VertexAt(lod, edge[2]).position
    IN  IF WithinEps3(VSub3(candidatePos0, edgePos1))
            THEN <<candidate[2], candidate[1]>>
            ELSE candidate

\* Variant: the normals are not compared
SameEdgeGeometry_PositionsOnly(e0, e1, c0, c1) ==
    /\ WithinEps3(VSub3(e0.position, c0.position))
    /\ WithinEps3(VSub3(e1.position, c1.position))

\* "Skip if edge geometry is different": TRUE when the pair is kept
SameEdgeGeometry(e0, e1, c0, c1) ==
    LET samePos0 == WithinEps3(VSub3(e0.position, c0.position))
        samePos1 == WithinEps3(VSub3(e1.position, c1.position))
        sameNormal0 == WithinEps3(VSub3(e0.normal, c0.normal))
        sameNormal1 == WithinEps3(VSub3(e1.normal, c1.normal))
    IN  ~(~samePos0 \/ ~samePos1 \/ ~sameNormal0 \/ ~sameNormal1)

\* "Skip if not a seam": TRUE when both UV pairs match
SameEdgeUv(edgeUv0, edgeUv1, candidateUv0, candidateUv1) ==
    LET sameUv0 == WithinEps2(VSub2(edgeUv0, candidateUv0))
        sameUv1 == WithinEps2(VSub2(edgeUv1, candidateUv1))
    IN  sameUv0 /\ sameUv1

\* Variant: the UV points are compared with the edge's UV line by their
\* second coordinate alone
CollinearUv_AxisAligned(edgeUv0, edgeUv1, candidateUv0, candidateUv1) ==
    /\ Abs(candidateUv0[2] - edgeUv0[2]) < Eps
    /\ Abs(candidateUv1[2] - edgeUv0[2]) < Eps

\* "Skip if belong to the same line: AB x AC = AB x AD = 0"
CollinearUv(edgeUv0, edgeUv1, candidateUv0, candidateUv1) ==
    LET edgeUvDelta == VSub2(edgeUv1, edgeUv0)
        delta00 == VSub2(candidateUv0, edgeUv0)
        delta01 == VSub2(candidateUv1, edgeUv0)
        collinear00 == CrossWithinEps(CrossZ(edgeUvDelta, delta00))
        collinear01 == CrossWithinEps(CrossZ(edgeUvDelta, delta01))
    IN  collinear00 /\ collinear01

\* uv_[uvChannel] of a vertex (uvChannel is 0-based)
UvOf(vertex, uvChannel) == vertex.uv[uvChannel + 1]

\* The body of the candidate loop: does (edge, candidate) emit a seam
IsSeam(lod, uvChannel, edge, rawCandidate) ==
    /\ rawCandidate # edge
    /\ LET candidate == OrientCandidate(lod, edge, rawCandidate)
           e0 == VertexAt(lod, edge[1])
           e1 == VertexAt(lod, edge[2])
           c0 == VertexAt(lod, candidate[1])
           c1 == VertexAt(lod, candidate[2])
       IN  /\ SameEdgeGeometry(e0, e1, c0, c1)
           /\ ~SameEdgeUv(UvOf(e0, uvChannel), UvOf(e1, uvChannel),
                          UvOf(c0, uvChannel), UvOf(c1, uvChannel))
           /\ ~CollinearUv(UvOf(e0, uvChannel), UvOf(e1, uvChannel),
                           UvOf(c0, uvChannel), UvOf(c1, uvChannel))

\* Variant: the record takes the candidate as it was before the swap
MakeSeam_RawCandidate(lod, uvChannel, edge, rawCandidate) ==
    [positions |-> << UvOf(VertexAt(lod, edge[1]), uvChannel),
                      UvOf(VertexAt(lod, edge[2]), uvChannel) >>,
     otherPositions |-> << UvOf(VertexAt(lod, rawCandidate[1]), uvChannel),
                           UvOf(VertexAt(lod, rawCandidate[2]), uvChannel) >>]

\* "It's a seam!": the record pushed
MakeSeam(lod, uvChannel, edge, rawCandidate) ==
    LET candidate == OrientCandidate(lod, edge, rawCandidate)
    IN  [positions |-> << UvOf(VertexAt(lod, edge[1]), uvChannel),
                          UvOf(VertexAt(lod, edge[2]), uvChannel) >>,
         otherPositions |-> << UvOf(VertexAt(lod, candidate[1]), uvChannel),
                               UvOf(VertexAt(lod, candidate[2]), uvChannel) >>]

RECURSIVE EdgeSeams(_, _, _, _, _)
\* seams pushed for one edge, over candidates[k..]
EdgeSeams(lod, uvChannel, edge, candidates, k) ==
    IF k > Len(candidates) THEN <<>>
    ELSE (IF IsSeam(lod, uvChannel, edge, candidates[k])
             THEN <<MakeSeam(lod, uvChannel, edge, candidates[k])>>
             ELSE <<>>)
         \o EdgeSeams(lod, uvChannel, edge, candidates, k + 1)

RECURSIVE LodSeamsFrom(_, _, _, _, _, _)
\* seams pushed for the edges geometryEdges[k..] of one LOD
LodSeamsFrom(lod, uvChannel, box, geometryEdges, geometryEdgesHash, k) ==
    IF k > Len(geometryEdges) THEN <<>>
    ELSE EdgeSeams(lod, uvChannel, geometryEdges[k],
                   Candidates(lod, box, geometryEdgesHash, geometryEdges[k]), 1)
         \o LodSeamsFrom(lod, uvChannel, box, geometryEdges, geometryEdgesHash, k + 1)

\* The body of the loop over the LODs of a geometry
LodSeams(lod, uvChannel, box) ==
    LET geometryEdges == GeometryEdges(lod)
        geometryEdgesHash == GeometryEdgesHash(lod, box, geometryEdges)
    IN  LodSeamsFrom(lod, uvChannel, box, geometryEdges, geometryEdgesHash, 1)

\* Variant: the (at most two) LODs of a geometry are matched as one edge list
ConcatLods_Merged(lods, uvChannel, box, l) ==
    IF l > 1 \/ lods = <<>> THEN <<>>
    ELSE IF Len(lods) = 1 THEN LodSeams(lods[1], uvChannel, box)
    ELSE LodSeams([vertices |-> lods[1].vertices \o lods[2].vertices,
                   indices |-> lods[1].indices
                               \o [i \in 1..Len(lods[2].indices) |->
                                      lods[2].indices[i] + Len(lods[1].vertices)]],
                  uvChannel, box)

RECURSIVE ConcatLods(_, _, _, _)
ConcatLods(lods, uvChannel, box, l) ==
    IF l > Len(lods) THEN <<>>
    ELSE LodSeams(lods[l], uvChannel, box)
         \o ConcatLods(lods, uvChannel, box, l + 1)

RECURSIVE ConcatGeometries(_, _, _, _)
ConcatGeometries(geometries, uvChannel, box, g) ==
    IF g > Len(geometries) THEN <<>>
    ELSE ConcatLods(geometries[g].lods, uvChannel, box, 1)
         \o ConcatGeometries(geometries, uvChannel, box, g + 1)

\* Variant: the result of ImportModel is not looked at
ImportModel_Unchecked(model) == TRUE

\* modelView.ImportModel(model)
ImportModel(model) == model.importable

\* CollectModelSeams: the seams returned (the error it logs is in the action)
CollectModelSeams(model, uvChannel) ==
    IF ~ImportModel(model) THEN <<>>
    ELSE ConcatGeometries(model.geometries, uvChannel, CalculateBoundingBox(model), 1)

(***************************************************************************)
(* The log                                                                 *)
(***************************************************************************)
\* URHO3D_LOGERROR(format, arguments...): one log entry with the sequence of
\* the arguments that fill the placeholders of the format
LogError(format, arguments) == [level |-> "error", format |-> format, arguments |-> arguments]

\* The entry CollectModelSeams logs for a model, if any
CollectModelSeamsLog(model) ==
    IF ~ImportModel(model)
        THEN <<LogError("Failed to import model", <<model.name>>)>>
        ELSE <<>>

(***************************************************************************)
(* Inputs of seam detection: two triangles, the first edge of the second   *)
(* one placed on or near the first edge of the first one                   *)
(***************************************************************************)
\* Largest offset (grid units) by which coincident endpoints are displaced
PosJitter == 1

Vertex(position, normal, uv0, uv1) ==
    [position |-> position, normal |-> normal, uv |-> <<uv0, uv1>>]

NormalUp == <<0, 0, UnitsPerOne>>
NormalNear == <<1, 0, UnitsPerOne>>
NormalSide == <<0, UnitsPerOne, 0>>

\* Normals of the second edge's endpoints
NormalChoices == { <<NormalUp, NormalUp>>, <<NormalNear, NormalUp>>,
                   <<NormalSide, NormalUp>>, <<NormalSide, NormalSide>> }

\* Positions of the second edge's endpoints: on either endpoint of the first
\* edge (0,0,0)-(10,0,0), displaced by up to PosJitter
PosChoices == { <<x + j, 0, 0>> : x \in {0, 10}, j \in 0..PosJitter }

\* UVs of the second edge's endpoints
UvChoices == { <<0, 0>>, <<1, 0>>, <<20000, 0>>, <<10000, 0>>,
               <<0, 10000>>, <<20000, 10000>> }

\* UV of the first edge's second endpoint (its first one is at the origin)
EdgeUv1Choices == { <<20000, 0>>, <<0, 0>> }

\* Index buffers: two separate triangles (second one in either winding), or
\* two triangles sharing the edge 0-1
IndexChoices == { <<0, 1, 2, 3, 4, 5>>, <<0, 1, 2, 5, 4, 3>>, <<0, 1, 2, 1, 0, 5>> }

TwoTriangleLod(p1, uv1, p3, p4, n, uv3, uv4, indices, channel) ==
    LET Uv(chosen, other) == IF channel = 0 THEN <<chosen, other>> ELSE <<other, chosen>>
        V(p, nrm, chosen, other) == Vertex(p, nrm, Uv(chosen, other)[1], Uv(chosen, other)[2])
    IN  [vertices |-> << V(<<0, 0, 0>>, NormalUp, <<0, 0>>, <<0, 0>>),
                         V(p1, NormalUp, uv1, <<20000, 0>>),
                         V(<<0, 20, 0>>, NormalUp, <<0, 20000>>, <<0, 20000>>),
                         V(p3, n[1], uv3, <<0, 0>>),
                         V(p4, n[2], uv4, <<20000, 0>>),
                         V(<<0, -20, 0>>, NormalUp, <<20000, 20000>>, <<20000, 20000>>) >>,
         indices |-> indices]

SeamModel(importable, lod) ==
    [name |-> "seam-model", importable |-> importable, geometries |-> << [lods |-> <<lod>>] >>]

\* The second edge anywhere around the first one, with the same UVs as the
\* first edge or with UVs of its own
GeometryFamily ==
    { TwoTriangleLod(<<10, 0, 0>>, <<20000, 0>>, p3, p4, n, uv[1], uv[2], ix, 0)
      : p3 \in PosChoices, p4 \in PosChoices, n \in NormalChoices,
        uv \in { << <<0, 0>>, <<20000, 0>> >>, << <<0, 10000>>, <<20000, 10000>> >> },
        ix \in IndexChoices }

\* The second edge on the first one (in either direction), with any UVs
UvFamily ==
    { TwoTriangleLod(<<10, 0, 0>>, uv1, p[1], p[2], n, uv3, uv4, ix, 0)
      : uv1 \in EdgeUv1Choices,
        p \in { << <<j, 0, 0>>, <<10, 0, 0>> >> : j \in 0..PosJitter }
              \cup { << <<10 + j, 0, 0>>, <<0, 0, 0>> >> : j \in 0..PosJitter },
        n \in { <<NormalUp, NormalUp>>, <<NormalNear, NormalUp>> },
        uv3 \in UvChoices, uv4 \in UvChoices,
        ix \in { <<0, 1, 2, 3, 4, 5>>, <<0, 1, 2, 5, 4, 3>> } }

\* A first edge about as short as the tolerance, the second edge around it
ShortEdgeFamily ==
    { TwoTriangleLod(<<len, 0, 0>>, uv1, <<x3, 0, 0>>, <<x4, 0, 0>>,
                     <<NormalUp, NormalUp>>, uv[1], uv[2], <<0, 1, 2, 3, 4, 5>>, 0)
      : len \in 1..(2 * Eps), uv1 \in EdgeUv1Choices,
        x3 \in 0..(2 * Eps), x4 \in 0..(2 * Eps),
        uv \in { << <<0, 0>>, <<20000, 0>> >>, << <<0, 0>>, <<0, 0>> >>,
                 << <<0, 10000>>, <<20000, 10000>> >>, << <<20000, 10000>>, <<0, 10000>> >> } }

\* Directions of a UV line (rotations of the UV configuration)
UvDirections == { <<1, 0>>, <<0, 1>>, <<1, 1>>, <<3, 4>>, <<-4, 3>>, <<2, -1>> }

\* Origins of a UV line (translations of the UV configuration)
UvOrigins == { <<0, 0>>, <<3000, -2000>> }

\* The point at parameter t of the UV line through origin o in direction d
UvOnLine(o, d, t) == <<o[1] + t * d[1], o[2] + t * d[2]>>

\* The second edge on the first one (in either direction), the four UVs on
\* one UV line: the first edge's UV segment from parameter 0 to t1 (of length
\* zero for t1 = 0), the second edge's from t3 to t4
CollinearFamily ==
    { LET lod == TwoTriangleLod(<<10, 0, 0>>, UvOnLine(o, d, t1), p[1], p[2],
                                <<NormalUp, NormalUp>>,
                                UvOnLine(o, d, t3), UvOnLine(o, d, t4), <<0, 1, 2, 3, 4, 5>>, 0)
      IN  [lod EXCEPT !.vertices[1].uv[1] = o]
      : o \in UvOrigins, d \in UvDirections,
        t1 \in {0, 1, 1000, 4000},
        t3 \in {-1000, 0, 1, 2000, 4000}, t4 \in {-1000, 0, 1, 2000, 4000},
        p \in { << <<0, 0, 0>>, <<10, 0, 0>> >>, << <<10, 0, 0>>, <<0, 0, 0>> >> } }

\* Offsets of at most one unit on each axis
UnitOffsets == { <<dx, dy, dz>> : dx \in -1..1, dy \in -1..1, dz \in -1..1 }

\* The first edge with its endpoints next to boundaries of hash cells, each
\* endpoint of the second edge at most one unit per axis off it
CellBoundaryFamily ==
    { LET lod == TwoTriangleLod(<<11, 0, 0>>, <<20000, 0>>,
                                <<1 + d3[1], d3[2], d3[3]>>, <<11 + d4[1], d4[2], d4[3]>>,
                                <<NormalUp, NormalUp>>, uv[1], uv[2], <<0, 1, 2, 3, 4, 5>>, 0)
      IN  [lod EXCEPT !.vertices[1].position = <<1, 0, 0>>]
      : d3 \in UnitOffsets, d4 \in UnitOffsets,
        uv \in { << <<0, 0>>, <<20000, 0>> >>, << <<0, 10000>>, <<20000, 10000>> >> } }

SeamModels ==
    { SeamModel(TRUE, lod)
      : lod \in GeometryFamily \cup UvFamily \cup ShortEdgeFamily \cup CollinearFamily
                \cup CellBoundaryFamily }
    \cup { SeamModel(FALSE, TwoTriangleLod(<<10, 0, 0>>, <<20000, 0>>, <<0, 0, 0>>, <<10, 0, 0>>,
                        <<NormalUp, NormalUp>>, <<0, 10000>>, <<20000, 10000>>,
                        <<0, 1, 2, 3, 4, 5>>, 0)) }

(***************************************************************************)
(* Specification of seam detection alone                                   *)
(***************************************************************************)
GenerateIdle ==
    /\ charts = <<>> /\ renderPathLoads = TRUE /\ failingModels = {}
    /\ pc = "idle" /\ chartIdx = 0
    /\ boundingBox = <<>> /\ usedModels = {} /\ collectSeamsTasks = <<>>
    /\ joinIdx = 0 /\ modelSeamsCache = <<>> /\ scene = <<>>
    /\ geometryId = 0 /\ seams = <<>> /\ elemIdx = 0 /\ result = <<>>
    /\ numMaterialClones = 0 /\ submitted = <<>>

BakeIdle ==
    /\ sceneIdx = 0 /\ framesOpen = 0 /\ renderTargets = <<>> /\ readIdx = 0
    /\ buffer = <<>> /\ geometryBuffer = <<>> /\ geometryBuffers = <<>>
    /\ bakeRound = 0 /\ previousBuffers = <<>>

SeamInit ==
    /\ GenerateIdle /\ BakeIdle
    /\ log = <<>>
    /\ seamPc = "input"
    /\ seamModel \in SeamModels
    /\ seamUvChannel \in {0}
    /\ seamResult = <<>>
    /\ seamVariant = <<>>
    /\ seamVariantResult = <<>>
    /\ edgeList = <<>>

\* One call CollectModelSeams(model, uvChannel)
SeamCollect ==
    /\ seamPc = "input"
    /\ seamResult' = CollectModelSeams(seamModel, seamUvChannel)
    /\ log' = log \o CollectModelSeamsLog(seamModel)
    /\ seamPc' = "done"
    /\ UNCHANGED <<seamModel, seamUvChannel, seamVariant, seamVariantResult, edgeList,
                   inputVars, generateVars, bakeVars>>

SeamNext == SeamCollect

SeamSpec == SeamInit /\ [][SeamNext]_vars

(***************************************************************************)
(* Seam detection on a mesh and on the same mesh stored differently        *)
(***************************************************************************)
\* The LOD with vertex i stored at index perm[i], the index buffer remapped
Renumbered(lod, perm) ==
    [vertices |-> [j \in 1..Len(lod.vertices) |->
                      lod.vertices[(CHOOSE i \in DOMAIN perm : perm[i] = j - 1) + 1]],
     indices |-> [k \in 1..Len(lod.indices) |-> perm[lod.indices[k]]]]

\* The LOD with the index order of the given faces reversed
Rewound(lod, faces) ==
    [lod EXCEPT !.indices =
        [k \in 1..Len(lod.indices) |->
            IF ((k - 1) \div 3) \in faces
                THEN lod.indices[3 * ((k - 1) \div 3) + (3 - ((k - 1) % 3))]
                ELSE lod.indices[k]]]

\* The model with its one LOD renumbered and rewound
VariantModel(model, variant) ==
    [model EXCEPT !.geometries[1].lods[1] =
        Rewound(Renumbered(@, variant.perm), variant.faces)]

IdentityPerm == [i \in 0..5 |-> i]

\* Renumberings of the six vertices: none, the endpoints of the first edge
\* exchanged, those of the second edge exchanged, all reversed, all shifted
VertexPerms ==
    { IdentityPerm,
      [IdentityPerm EXCEPT ![0] = 1, ![1] = 0],
      [IdentityPerm EXCEPT ![3] = 4, ![4] = 3],
      [i \in 0..5 |-> 5 - i],
      [i \in 0..5 |-> (i + 1) % 6] }

Variants ==
    { [perm |-> perm, faces |-> faces] : perm \in VertexPerms, faces \in SUBSET {0, 1} }
    \ { [perm |-> IdentityPerm, faces |-> {}] }

\* The second edge on the first one in either direction, and short edges
RelabelFamily ==
    { TwoTriangleLod(<<10, 0, 0>>, <<20000, 0>>, p[1], p[2], <<NormalUp, NormalUp>>, uv3, uv4, ix, 0)
      : p \in { << <<j, 0, 0>>, <<10, 0, 0>> >> : j \in 0..PosJitter }
              \cup { << <<10 + j, 0, 0>>, <<0, 0, 0>> >> : j \in 0..PosJitter },
        uv3 \in { <<0, 0>>, <<20000, 0>>, <<0, 10000>>, <<20000, 10000>> },
        uv4 \in { <<0, 0>>, <<20000, 0>>, <<0, 10000>>, <<20000, 10000>> },
        ix \in IndexChoices }
    \cup
    { TwoTriangleLod(<<len, 0, 0>>, <<20000, 0>>, <<x3, 0, 0>>, <<x4, 0, 0>>,
                     <<NormalUp, NormalUp>>, uv[1], uv[2], <<0, 1, 2, 3, 4, 5>>, 0)
      : len \in {1, 2 * Eps}, x3 \in {0, 1, 2 * Eps}, x4 \in {0, 1, 2 * Eps},
        uv \in { << <<0, 10000>>, <<20000, 10000>> >>, << <<20000, 10000>>, <<0, 10000>> >> } }

RelabelModels == { SeamModel(TRUE, lod) : lod \in RelabelFamily }

RelabelInit ==
    /\ GenerateIdle /\ BakeIdle
    /\ log = <<>>
    /\ seamPc = "input"
    /\ seamModel \in RelabelModels
    /\ seamUvChannel \in {0}
    /\ seamResult = <<>>
    /\ seamVariant = <<>>
    /\ seamVariantResult = <<>>
    /\ edgeList = <<>>

\* A second call CollectModelSeams, on the same mesh stored differently
SeamCollectVariant ==
    /\ seamPc = "done"
    /\ \E variant \in Variants :
          /\ seamVariant' = variant
          /\ seamVariantResult' = CollectModelSeams(VariantModel(seamModel, variant), seamUvChannel)
          /\ log' = log \o CollectModelSeamsLog(VariantModel(seamModel, variant))
    /\ seamPc' = "relabelled"
    /\ UNCHANGED <<seamModel, seamUvChannel, seamResult, edgeList,
                   inputVars, generateVars, bakeVars>>

RelabelNext == SeamCollect \/ SeamCollectVariant

RelabelSpec == RelabelInit /\ [][RelabelNext]_vars

(***************************************************************************)
(* Inputs of a bake round                                                  *)
(***************************************************************************)
\* Most charts in the list
MaxCharts == 2
\* Most chart elements in the whole list
MaxElements == 3

\* The models of the resource cache
Models == {1, 2}

\* LightmapGeometryBakingSettings
Settings == [materialName |-> "Materials/LightmapBaker.xml",
             uvChannel |-> 1,
             renderPathName |-> "RenderPaths/LightmapGBuffer.xml"]

\* The Model resource m: two triangles whose coincident edges are mapped to
\* different, non-collinear segments of UV channel 1
ModelResource(m, failing) ==
    [name |-> <<"Model", m>>,
     importable |-> m \notin failing,
     geometries |-> << [lods |-> << TwoTriangleLod(<<10, 0, 0>>, <<20000, 0>>, <<0, 0, 0>>, <<10, 0, 0>>,
                                        <<NormalUp, NormalUp>>,
                                        <<0, 5000 * m>>, <<20000, 5000 * m>>,
                                        <<0, 1, 2, 3, 4, 5>>, 1) >>] >>]

\* Element k of chart c; choice 0 is an element without static model
ChartElement(c, k, choice) ==
    [staticModel |-> choice # 0,
     model |-> choice,
     worldBoundingBox |-> [min |-> <<4 * k, 0, 2 * c>>, max |-> <<4 * k + 2, 2, 2 * c + 4>>],
     node |-> [worldPosition |-> <<c, k, 0>>, worldRotation |-> <<0, k, c>>, worldScale |-> <<k, k, k>>],
     region |-> [scale |-> <<k, k + 1>>, offset |-> <<100 * c, 10 * k>>]]

\* Chart c of the list, with the given model choices of its elements
Chart(c, choices) ==
    [index |-> 10 * c, width |-> c, height |-> 2, size |-> <<c, 2>>,
     elements |-> [k \in 1..Len(choices) |-> ChartElement(c, k, choices[k])]]

ChoiceSeqs(n) == [1..n -> {0} \cup Models]

RECURSIVE SumSeq(_)
SumSeq(s) == IF s = <<>> THEN 0 ELSE s[1] + SumSeq(Tail(s))

\* All chart lists of at most MaxCharts charts and MaxElements elements
ChartLists ==
    UNION { UNION { { [c \in 1..n |-> Chart(c, choices[c])]
                      : choices \in { f \in [1..n -> UNION {ChoiceSeqs(j) : j \in 0..MaxElements}]
                                      : \A c \in 1..n : Len(f[c]) = counts[c] } }
                    : counts \in { k \in [1..n -> 0..MaxElements] : SumSeq(k) <= MaxElements } }
            : n \in 0..MaxCharts }

MeshElements(chart) ==
    SelectSeq(chart.elements, LAMBDA e : e.staticModel)

(***************************************************************************)
(* GenerateLightmapGeometryBakingScene(s)                                  *)
(***************************************************************************)
\* Number of multi-tap samples
numMultiTapSamples == 25

\* multiTapOffsets, doubled (in half texels)
multiTapOffsets ==
    << << 2,  2>>, << 2, -2>>, <<-2,  2>>, <<-2, -2>>,
       << 2,  1>>, << 2, -1>>, <<-2,  1>>, <<-2, -1>>,
       << 1,  2>>, << 1, -2>>, <<-1,  2>>, <<-1, -2>>,
       << 2,  0>>, <<-2,  0>>, << 0,  2>>, << 0, -2>>,
       << 1,  1>>, << 1, -1>>, <<-1,  1>>, <<-1, -1>>,
       << 1,  0>>, <<-1,  0>>, << 0,  1>>, << 0, -1>>,
       << 0,  0>> >>

\* const float zNear = 1.0f
zNear == 1

\* A default-constructed BoundingBox (min = +inf, max = -inf)
UndefinedBox == [defined |-> FALSE, min |-> <<0, 0, 0>>, max |-> <<0, 0, 0>>]

\* BoundingBox::Merge(box)
Merge(box, other) ==
    IF ~box.defined THEN [defined |-> TRUE, min |-> other.min, max |-> other.max]
    ELSE [defined |-> TRUE,
          min |-> <<Min(box.min[1], other.min[1]), Min(box.min[2], other.min[2]), Min(box.min[3], other.min[3])>>,
          max |-> <<Max(box.max[1], other.max[1]), Max(box.max[2], other.max[2]), Max(box.max[3], other.max[3])>>]

RECURSIVE MergeAll(_, _)
MergeAll(box, elements) ==
    IF elements = <<>> THEN box
    ELSE MergeAll(Merge(box, elements[1].worldBoundingBox), Tail(elements))

\* Variant: the boxes of all elements are merged
ChartBoundingBox_AllElements(chart) == MergeAll(UndefinedBox, chart.elements)

\* "Calculate bounding box and enumerate used models"
ChartBoundingBox(chart) == MergeAll(UndefinedBox, MeshElements(chart))
ChartUsedModels(chart) == {chart.elements[k].model : k \in {j \in 1..Len(chart.elements) : chart.elements[j].staticModel}}

\* SetCameraBoundingBox: the camera and its node afterwards.  For a box that
\* was never merged, Size() is -inf and Center() is NaN on every axis.
SetCameraBoundingBox(box) ==
    IF box.defined
        THEN LET size == VSub3(box.max, box.min)
                 zFar == size[3] + zNear
             IN  [finite |-> TRUE,
                  position |-> <<(box.min[1] + box.max[1]) \div 2,
                                 (box.min[2] + box.max[2]) \div 2,
                                 box.min[3] - zNear>>,
                  direction |-> "FORWARD",
                  orthographic |-> TRUE,
                  orthoSize |-> <<size[1], size[2]>>,
                  nearClip |-> zNear,
                  farClip |-> zFar]
        ELSE [finite |-> FALSE,
              position |-> <<"NaN", "NaN", "+Inf">>,
              direction |-> "FORWARD",
              orthographic |-> TRUE,
              orthoSize |-> <<"-Inf", "-Inf">>,
              nearClip |-> zNear,
              farClip |-> "-Inf"]

\* Variant: the result of RenderPath::Load is not looked at
LoadRenderPath_Unchecked(loads) == [renderPath |-> Settings.renderPathName]

\* LoadRenderPath: the render path, or nullptr
LoadRenderPath(loads) ==
    IF loads THEN [renderPath |-> Settings.renderPathName] ELSE [renderPath |-> "nullptr"]

\* Variant: only the model scheduled last is excluded
UnscheduledModels_OnlyLast(used, tasks) ==
    used \ (IF tasks = <<>> THEN {} ELSE {tasks[Len(tasks)].model})

\* The models of usedModels no task was created for yet
UnscheduledModels(used, tasks) == used \ {tasks[i].model : i \in 1..Len(tasks)}

\* Variant: the caching loop does not wait for the task
TaskReady_NoWait(task) == TRUE

\* task.get() returns only when the task has run
TaskReady(task) == task.state = "done"

\* modelSeamsCache.emplace(model, seams): no effect if the key is present
Emplace(cache, model, modelSeams) ==
    IF model \in DOMAIN cache THEN cache
    ELSE [k \in DOMAIN cache \cup {model} |-> IF k = model THEN modelSeams ELSE cache[k]]

\* modelSeamsCache[model]: inserts an empty vector if the key is absent
CacheAt(cache, model) == IF model \in DOMAIN cache THEN cache[model] ELSE <<>>

\* LightmapSeam::Transformed(scale, offset)
Transformed(seam, scale, offset) ==
    LET T(p) == <<p[1] * scale[1] + offset[1], p[2] * scale[2] + offset[2]>>
    IN  [positions |-> <<T(seam.positions[1]), T(seam.positions[2])>>,
         otherPositions |-> <<T(seam.otherPositions[1]), T(seam.otherPositions[2])>>]

\* Variant: the model's seams are added as they are
ElementSeams_Untransformed(modelSeams, scale, offset) == modelSeams

\* "Add seams": the seams pushed for one element
ElementSeams(modelSeams, scale, offset) ==
    [i \in 1..Len(modelSeams) |-> Transformed(modelSeams[i], scale, offset)]

\* The shared baking material (clones are numbered from 1)
bakingMaterial == 0

\* Variant: the parameters are set on the shared material, without Clone()
Clone_Shared(clonesBefore, tap) == bakingMaterial

\* bakingMaterial->Clone(): the material the tap's parameters are set on
Clone(clonesBefore, tap) == clonesBefore + tap + 1

\* The material of one tap with its three shader parameters.  tapOffset is
\* in half texels, LightmapLayer in 1/(numMultiTapSamples - 1).
TapMaterial(material, element, tap, id) ==
    [material |-> material,
     LMOffset |-> [scaleOffset |-> <<element.region.scale[1], element.region.scale[2],
                                     element.region.offset[1], element.region.offset[2]>>,
                   tapOffset |-> multiTapOffsets[tap + 1]],
     LightmapLayer |-> (numMultiTapSamples - 1) - tap,
     LightmapGeometry |-> id]

\* Variant: the id counter advances for every element
GeometryIdAfter_EveryElement(element, id) == id + 1

\* geometryId after an element: "++geometryId" inside "if (element.staticModel_)"
GeometryIdAfter(element, id) == IF element.staticModel THEN id + 1 ELSE id

\* The node created for one tap of an element
TapNode(element, tap, id, clonesBefore) ==
    [position |-> element.node.worldPosition,
     rotation |-> element.node.worldRotation,
     scale |-> element.node.worldScale,
     model |-> element.model,
     material |-> TapMaterial(Clone(clonesBefore, tap), element, tap, id)]

\* "Add model for each tap"
TapNodes(element, id, clonesBefore) ==
    [t \in 1..numMultiTapSamples |-> TapNode(element, t - 1, id, clonesBefore)]

\* GenerateLightmapGeometryBakingScenes up to the loop over the charts
LoadRenderPathStep ==
    /\ pc = "start"
    /\ IF LoadRenderPath(renderPathLoads).renderPath = "nullptr"
          THEN /\ log' = Append(log, LogError("Failed to load render path", <<Settings.renderPathName>>))
               /\ pc' = "generated"
          ELSE /\ log' = log
               /\ pc' = IF charts = <<>> THEN "generated" ELSE "chart"
    /\ result' = <<>>
    /\ chartIdx' = 1
    /\ UNCHANGED <<inputVars, boundingBox, usedModels, collectSeamsTasks, joinIdx,
                   modelSeamsCache, scene, geometryId, seams, elemIdx,
                   numMaterialClones, submitted, bakeVars, seamVars>>

\* GenerateLightmapGeometryBakingScene: bounding box and used models
BeginChart ==
    /\ pc = "chart"
    /\ boundingBox' = ChartBoundingBox(charts[chartIdx])
    /\ usedModels' = ChartUsedModels(charts[chartIdx])
    /\ collectSeamsTasks' = <<>>
    /\ modelSeamsCache' = <<>>
    /\ joinIdx' = 1
    /\ pc' = IF usedModels' = {} THEN "scene" ELSE "schedule"
    /\ UNCHANGED <<inputVars, chartIdx, scene, geometryId, seams, elemIdx, result,
                   numMaterialClones, submitted, log, bakeVars, seamVars>>

\* One iteration of "Schedule model seams collecting" (hash_set order)
ScheduleTask ==
    /\ pc = "schedule"
    /\ \E model \in UnscheduledModels(usedModels, collectSeamsTasks) :
          /\ collectSeamsTasks' = Append(collectSeamsTasks,
                                         [model |-> model, state |-> "scheduled", result |-> <<>>])
          /\ submitted' = [submitted EXCEPT ![model] = @ + 1]
          /\ pc' = IF UnscheduledModels(usedModels, collectSeamsTasks') = {}
                      THEN "join" ELSE "schedule"
    /\ UNCHANGED <<inputVars, chartIdx, boundingBox, usedModels, joinIdx, modelSeamsCache,
                   scene, geometryId, seams, elemIdx, result, numMaterialClones, log, bakeVars, seamVars>>

\* Variant: the lambda captures the loop variable by reference, and reads
\* the model the scheduling loop has reached
CapturedModel_ByReference(tasks, i) == tasks[Len(tasks)].model

\* The capture [model, uvChannel]: the task's own copy of the loop variable
CapturedModel(tasks, i) == tasks[i].model

\* The body of one std::async task, on its own thread (or inside get())
RunTask ==
    /\ \E i \in 1..Len(collectSeamsTasks) :
          /\ collectSeamsTasks[i].state = "scheduled"
          /\ LET captured == CapturedModel(collectSeamsTasks, i)
                 model == ModelResource(captured, failingModels)
             IN  /\ collectSeamsTasks' = [collectSeamsTasks EXCEPT ![i] =
                        [model |-> captured, state |-> "done",
                         result |-> CollectModelSeams(model, Settings.uvChannel)]]
                 /\ log' = log \o CollectModelSeamsLog(model)
    /\ UNCHANGED <<inputVars, pc, chartIdx, boundingBox, usedModels, joinIdx, modelSeamsCache,
                   scene, geometryId, seams, elemIdx, result, numMaterialClones, submitted, bakeVars, seamVars>>

\* One iteration of "Cache model seams"
JoinTask ==
    /\ pc = "join"
    /\ TaskReady(collectSeamsTasks[joinIdx])
    /\ modelSeamsCache' = Emplace(modelSeamsCache, collectSeamsTasks[joinIdx].model,
                                  collectSeamsTasks[joinIdx].result)
    /\ joinIdx' = joinIdx + 1
    /\ pc' = IF joinIdx = Len(collectSeamsTasks) THEN "scene" ELSE "join"
    /\ UNCHANGED <<inputVars, chartIdx, boundingBox, usedModels, collectSeamsTasks,
                   scene, geometryId, seams, elemIdx, result, numMaterialClones, submitted, log, bakeVars, seamVars>>

\* "Create scene and camera"
CreateScene ==
    /\ pc = "scene"
    /\ scene' = [octree |-> TRUE, camera |-> SetCameraBoundingBox(boundingBox), nodes |-> <<>>]
    /\ geometryId' = 1
    /\ seams' = <<>>
    /\ elemIdx' = 1
    /\ pc' = IF charts[chartIdx].elements = <<>> THEN "return" ELSE "replicate"
    /\ UNCHANGED <<inputVars, chartIdx, boundingBox, usedModels, collectSeamsTasks, joinIdx,
                   modelSeamsCache, result, numMaterialClones, submitted, log, bakeVars, seamVars>>

\* One iteration of "Replicate all elements in the scene"
ReplicateElement ==
    /\ pc = "replicate"
    /\ LET element == charts[chartIdx].elements[elemIdx]
       IN  IF element.staticModel
              THEN /\ seams' = seams \o ElementSeams(CacheAt(modelSeamsCache, element.model),
                                                      element.region.scale, element.region.offset)
                   /\ modelSeamsCache' = Emplace(modelSeamsCache, element.model, <<>>)
                   /\ scene' = [scene EXCEPT !.nodes = @ \o TapNodes(element, geometryId, numMaterialClones)]
                   /\ numMaterialClones' = numMaterialClones + numMultiTapSamples
              ELSE UNCHANGED <<seams, modelSeamsCache, scene, numMaterialClones>>
    /\ geometryId' = GeometryIdAfter(charts[chartIdx].elements[elemIdx], geometryId)
    /\ elemIdx' = elemIdx + 1
    /\ pc' = IF elemIdx = Len(charts[chartIdx].elements) THEN "return" ELSE "replicate"
    /\ UNCHANGED <<inputVars, chartIdx, boundingBox, usedModels, collectSeamsTasks, joinIdx,
                   result, submitted, log, bakeVars, seamVars>>

\* Variant: the scene does not take the chart's index
BakingScene_NoIndex(chart, sceneGraph, renderPath, sceneSeams) ==
    [index |-> 0, width |-> chart.width, height |-> chart.height, size |-> chart.size,
     scene |-> sceneGraph, camera |-> sceneGraph.camera,
     renderPath |-> renderPath, seams |-> sceneSeams]

\* The LightmapGeometryBakingScene returned for a chart
BakingScene(chart, sceneGraph, renderPath, sceneSeams) ==
    [index |-> chart.index, width |-> chart.width, height |-> chart.height, size |-> chart.size,
     scene |-> sceneGraph, camera |-> sceneGraph.camera,
     renderPath |-> renderPath, seams |-> sceneSeams]

\* Variant: only the scene built last is kept
PushBackScene_KeepLast(scenes, bakingScene) == <<bakingScene>>

\* result.push_back(scene): the earlier scenes stay in the vector
PushBackScene(scenes, bakingScene) == Append(scenes, bakingScene)

\* return of GenerateLightmapGeometryBakingScene and result.push_back
ReturnScene ==
    /\ pc = "return"
    /\ result' = PushBackScene(result, BakingScene(charts[chartIdx], scene,
                                                   LoadRenderPath(renderPathLoads).renderPath, seams))
    /\ chartIdx' = chartIdx + 1
    /\ pc' = IF chartIdx = Len(charts) THEN "generated" ELSE "chart"
    /\ collectSeamsTasks' = <<>>
    /\ modelSeamsCache' = <<>>
    /\ usedModels' = {}
    /\ UNCHANGED <<inputVars, boundingBox, joinIdx, scene, geometryId, seams, elemIdx,
                   numMaterialClones, submitted, log, bakeVars, seamVars>>

(***************************************************************************)
(* BakeLightmapGeometryBuffer(s)                                           *)
(***************************************************************************)
\* The named outputs, in the order they are read back
OutputNames == <<"position", "smoothposition", "facenormal", "smoothnormal">>

\* LightmapChartGeometryBuffer{}: the default-constructed buffer
DefaultGeometryBuffer ==
    [index |-> 0, width |-> 0, height |-> 0,
     geometryPositions |-> <<>>, smoothPositions |-> <<>>, faceNormals |-> <<>>,
     smoothNormals |-> <<>>, geometryIds |-> <<>>, overrun |-> FALSE]

\* LightmapChartGeometryBuffer{ index, width, height }: arrays of
\* width * height default elements
NewGeometryBuffer(index, width, height) ==
    [index |-> index, width |-> width, height |-> height,
     geometryPositions |-> [i \in 1..(width * height) |-> <<0, 0, 0>>],
     smoothPositions |-> [i \in 1..(width * height) |-> <<0, 0, 0>>],
     faceNormals |-> [i \in 1..(width * height) |-> <<0, 0, 0>>],
     smoothNormals |-> [i \in 1..(width * height) |-> <<0, 0, 0>>],
     geometryIds |-> [i \in 1..(width * height) |-> 0],
     overrun |-> FALSE]

\* Variant: width and height are handed over exchanged
GeometryBufferOf_Transposed(bakingScene) ==
    NewGeometryBuffer(bakingScene.index, bakingScene.height, bakingScene.width)

\* LightmapChartGeometryBuffer geometryBuffer{ index_, width_, height_ }
GeometryBufferOf(bakingScene) ==
    NewGeometryBuffer(bakingScene.index, bakingScene.width, bakingScene.height)

\* The w component of a texel is kept in units of 1 / WUnit
WUnit == 4

\* One texel of a named output of the rendered view.  Texel i shows the
\* node ((i - 1) mod (nodes + 1)), none for 0; a texel without geometry
\* keeps the cleared value.  The w of "position" is the node's geometry id
\* plus a fraction below one; the w of the other outputs is whatever the
\* render path leaves there.
RenderTexel(bakingScene, name, i) ==
    LET nodes == bakingScene.scene.nodes
        n == (i - 1) % (Len(nodes) + 1)
    IN  IF n = 0 THEN <<0, 0, 0, 0>>
        ELSE LET node == nodes[n]
             IN  CASE name = "position" ->
                        <<node.position[1], node.position[2], node.position[3],
                          node.material.LightmapGeometry * WUnit + ((i - 1) % WUnit)>>
                   [] name = "smoothposition" ->
                        <<node.position[1] + 1, node.position[2], node.position[3],
                          n * WUnit + 1>>
                   [] name = "facenormal" -> <<0, 0, 1, 2 * WUnit + 3>>
                   [] OTHER -> <<0, 1, 0, 3 * WUnit>>

\* The extra render targets after view.Render(): size_.x * size_.y texels each
RenderView(bakingScene) ==
    [name \in Range(OutputNames) |->
        [i \in 1..(bakingScene.size[1] * bakingScene.size[2]) |-> RenderTexel(bakingScene, name, i)]]

\* Variant: dest is never made shorter
ReadTextureRGBA32Float_NeverShrinks(texture, dest) ==
    texture \o SubSeq(dest, Len(texture) + 1, Len(dest))

\* ReadTextureRGBA32Float(texture, dest): dest.resize(numElements), then
\* GetData writes all numElements texels of the texture into it
ReadTextureRGBA32Float(texture, dest) ==
    LET numElements == Len(texture)
        resized == [i \in 1..numElements |-> IF i <= Len(dest) THEN dest[i] ELSE <<0, 0, 0, 0>>]
    IN  [i \in 1..Len(resized) |-> texture[i]]

ExtractVector3FromVector4(data) == <<data[1], data[2], data[3]>>

\* Variant: the id is taken one higher
ExtractUintFromVector4_PlusOne(data) == (data[4] \div WUnit) + 1

\* static_cast<unsigned>(data.w_): the fraction is dropped (w is never
\* negative in a render target of this model)
ExtractUintFromVector4(data) == data[4] \div WUnit

\* ea::transform(first, last, dest.begin(), op) into an array of fixed
\* length: the elements written inside the array ("source" holds op's values)
Transform(source, dest) ==
    [i \in 1..Len(dest) |-> IF i <= Len(source) THEN source[i] ELSE dest[i]]

\* The values of ExtractVector3FromVector4 over the texture data
Vector3sOf(data) == [i \in 1..Len(data) |-> ExtractVector3FromVector4(data[i])]

\* The values of ExtractUintFromVector4 over the texture data
UintsOf(data) == [i \in 1..Len(data) |-> ExtractUintFromVector4(data[i])]

\* Variant: every output's w is decoded into the ids
StoreOutput_IdsFromEveryOutput(gb, name, data) ==
    LET over == gb.overrun \/ Len(data) > Len(gb.geometryIds)
        ids == [gb EXCEPT !.geometryIds = Transform(UintsOf(data), @), !.overrun = over]
    IN  CASE name = "position" ->
               [ids EXCEPT !.geometryPositions = Transform(Vector3sOf(data), @)]
          [] name = "smoothposition" ->
               [ids EXCEPT !.smoothPositions = Transform(Vector3sOf(data), @)]
          [] name = "facenormal" ->
               [ids EXCEPT !.faceNormals = Transform(Vector3sOf(data), @)]
          [] OTHER ->
               [ids EXCEPT !.smoothNormals = Transform(Vector3sOf(data), @)]

\* "Store results" of one named output
StoreOutput(gb, name, data) ==
    LET over == gb.overrun \/ Len(data) > Len(gb.geometryIds)
    IN  CASE name = "position" ->
               [gb EXCEPT !.geometryPositions = Transform(Vector3sOf(data), @),
                          !.geometryIds = Transform(UintsOf(data), @),
                          !.overrun = over]
          [] name = "smoothposition" ->
               [gb EXCEPT !.smoothPositions = Transform(Vector3sOf(data), @),
                          !.overrun = over]
          [] name = "facenormal" ->
               [gb EXCEPT !.faceNormals = Transform(Vector3sOf(data), @),
                          !.overrun = over]
          [] OTHER ->
               [gb EXCEPT !.smoothNormals = Transform(Vector3sOf(data), @),
                          !.overrun = over]

\* The caller hands the generated scenes to BakeLightmapGeometryBuffers
CallBake ==
    /\ pc = "generated"
    /\ sceneIdx' = 1
    /\ geometryBuffers' = <<>>
    /\ bakeRound' = 1
    /\ pc' = IF result = <<>> THEN "baked" ELSE "beginframe"
    /\ UNCHANGED <<inputVars, chartIdx, boundingBox, usedModels, collectSeamsTasks, joinIdx,
                   modelSeamsCache, scene, geometryId, seams, elemIdx, result,
                   numMaterialClones, submitted, log,
                   framesOpen, renderTargets, readIdx, buffer, geometryBuffer,
                   previousBuffers, seamVars>>

\* Most calls of the baker on one scene list
MaxBakeRounds == 2

\* The caller hands the same scenes to BakeLightmapGeometryBuffers again
CallBakeAgain ==
    /\ pc = "baked"
    /\ result # <<>>
    /\ bakeRound < MaxBakeRounds
    /\ previousBuffers' = geometryBuffers
    /\ sceneIdx' = 1
    /\ geometryBuffers' = <<>>
    /\ bakeRound' = bakeRound + 1
    /\ pc' = "beginframe"
    /\ UNCHANGED <<inputVars, chartIdx, boundingBox, usedModels, collectSeamsTasks, joinIdx,
                   modelSeamsCache, scene, geometryId, seams, elemIdx, result,
                   numMaterialClones, submitted, log,
                   framesOpen, renderTargets, readIdx, buffer, geometryBuffer, seamVars>>

\* What follows the return of BakeLightmapGeometryBuffer for scene sceneIdx
AfterBake == IF sceneIdx = Len(result) THEN "baked" ELSE "beginframe"

\* Variant: a failed BeginFrame ends the loop over the scenes
AfterFailedBeginFrame_Abort == "baked"

\* "return {}" after a failed BeginFrame goes back to the loop over the scenes
AfterFailedBeginFrame == AfterBake

\* graphics->BeginFrame() and, if it fails, the return of the default buffer
BeginFrame ==
    /\ pc = "beginframe"
    /\ \E ok \in BOOLEAN :
          IF ~ok
             THEN /\ log' = Append(log, LogError("Failed to begin lightmap geometry buffer rendering", <<>>))
                  /\ geometryBuffers' = Append(geometryBuffers, DefaultGeometryBuffer)
                  /\ sceneIdx' = sceneIdx + 1
                  /\ pc' = AfterFailedBeginFrame
                  /\ UNCHANGED <<framesOpen, geometryBuffer>>
             ELSE /\ framesOpen' = framesOpen + 1
                  /\ geometryBuffer' = GeometryBufferOf(result[sceneIdx])
                  /\ pc' = "render"
                  /\ UNCHANGED <<log, geometryBuffers, sceneIdx>>
    /\ UNCHANGED <<inputVars, chartIdx, boundingBox, usedModels, collectSeamsTasks, joinIdx,
                   modelSeamsCache, scene, geometryId, seams, elemIdx, result,
                   numMaterialClones, submitted, renderTargets, readIdx, buffer,
                   bakeRound, previousBuffers, seamVars>>

\* "Get render surface", "Setup viewport", "Render scene"
Render ==
    /\ pc = "render"
    /\ renderTargets' = RenderView(result[sceneIdx])
    /\ readIdx' = 1
    /\ pc' = "store"
    /\ UNCHANGED <<inputVars, chartIdx, boundingBox, usedModels, collectSeamsTasks, joinIdx,
                   modelSeamsCache, scene, geometryId, seams, elemIdx, result,
                   numMaterialClones, submitted, log,
                   sceneIdx, framesOpen, buffer, geometryBuffer, geometryBuffers,
                   bakeRound, previousBuffers, seamVars>>

\* Variant: the frame is ended after the first output was read back
AfterStore_OneOutput(idx) == "endframe"

\* What follows the read-back of output idx: the next output, or EndFrame
\* after the last one
AfterStore(idx) == IF idx = Len(OutputNames) THEN "endframe" ELSE "store"

\* "Store results": read back one named output and decode it
StoreResult ==
    /\ pc = "store"
    /\ buffer' = ReadTextureRGBA32Float(renderTargets[OutputNames[readIdx]], buffer)
    /\ geometryBuffer' = StoreOutput(geometryBuffer, OutputNames[readIdx], buffer')
    /\ readIdx' = readIdx + 1
    /\ pc' = AfterStore(readIdx)
    /\ UNCHANGED <<inputVars, chartIdx, boundingBox, usedModels, collectSeamsTasks, joinIdx,
                   modelSeamsCache, scene, geometryId, seams, elemIdx, result,
                   numMaterialClones, submitted, log,
                   sceneIdx, framesOpen, renderTargets, geometryBuffers,
                   bakeRound, previousBuffers, seamVars>>

\* Variant: the frame is never ended
FramesAfterEndFrame_Leak(open) == open

\* graphics->EndFrame(): the open frame is closed
FramesAfterEndFrame(open) == open - 1

\* graphics->EndFrame(), return geometryBuffer, geometryBuffers.push_back
EndFrame ==
    /\ pc = "endframe"
    /\ framesOpen' = FramesAfterEndFrame(framesOpen)
    /\ geometryBuffers' = Append(geometryBuffers, geometryBuffer)
    /\ renderTargets' = <<>>
    /\ sceneIdx' = sceneIdx + 1
    /\ pc' = AfterBake
    /\ UNCHANGED <<inputVars, chartIdx, boundingBox, usedModels, collectSeamsTasks, joinIdx,
                   modelSeamsCache, scene, geometryId, seams, elemIdx, result,
                   numMaterialClones, submitted, log,
                   readIdx, buffer, geometryBuffer, bakeRound, previousBuffers, seamVars>>

(***************************************************************************)
(* Specification of a bake round                                           *)
(***************************************************************************)
SeamIdle ==
    /\ seamPc = "idle" /\ seamModel = <<>> /\ seamUvChannel = 0 /\ seamResult = <<>>
    /\ seamVariant = <<>> /\ seamVariantResult = <<>>
    /\ edgeList = <<>>

Init ==
    /\ charts \in ChartLists
    /\ renderPathLoads \in BOOLEAN
    /\ failingModels \in {{}} \cup {{m} : m \in Models}
    /\ pc = "start"
    /\ chartIdx = 0
    /\ boundingBox = UndefinedBox
    /\ usedModels = {}
    /\ collectSeamsTasks = <<>>
    /\ joinIdx = 0
    /\ modelSeamsCache = <<>>
    /\ scene = <<>>
    /\ geometryId = 0
    /\ seams = <<>>
    /\ elemIdx = 0
    /\ result = <<>>
    /\ numMaterialClones = 0
    /\ submitted = [m \in Models |-> 0]
    /\ log = <<>>
    /\ BakeIdle
    /\ SeamIdle

Next ==
    \/ LoadRenderPathStep
    \/ BeginChart
    \/ ScheduleTask
    \/ RunTask
    \/ JoinTask
    \/ CreateScene
    \/ ReplicateElement
    \/ ReturnScene
    \/ CallBake
    \/ BeginFrame
    \/ Render
    \/ StoreResult
    \/ EndFrame

Spec == Init /\ [][Next]_vars

(***************************************************************************)
(* Specification of a bake round whose scenes are baked more than once     *)
(***************************************************************************)
RebakeInit == Init /\ failingModels = {}

RebakeNext == Next \/ CallBakeAgain

RebakeSpec == RebakeInit /\ [][RebakeNext]_vars

(***************************************************************************)
(* Properties of a bake round                                              *)
(***************************************************************************)
\* Number of mesh-bearing elements among the first k elements of a chart
MeshRank(chart, k) == Cardinality({j \in 1..k : chart.elements[j].staticModel})

\* The positions of the calling thread inside BakeLightmapGeometryBuffer(s)
BakePcs == {"beginframe", "render", "store", "endframe"}

\* Geometry ids carried by the nodes placed at an element's world transform
ElementIds(bakingScene, element) ==
    { bakingScene.scene.nodes[i].material.LightmapGeometry
      : i \in { j \in 1..Len(bakingScene.scene.nodes)
                : bakingScene.scene.nodes[j].position = element.node.worldPosition } }

\* C1: in every assembled scene the mesh-bearing elements carry the geometry
\* ids 1..N in chart-element order (the j-th mesh-bearing element carries j
\* and nothing else), an element without mesh carries no id, and the id
\* counter advances only over mesh-bearing elements.
C1_GeometryIdsInElementOrder ==
    /\ \A c \in 1..Len(result) :
          \A k \in 1..Len(charts[c].elements) :
             ElementIds(result[c], charts[c].elements[k]) =
                IF charts[c].elements[k].staticModel
                   THEN {MeshRank(charts[c], k)}
                   ELSE {}
    /\ pc = "replicate" => geometryId = 1 + MeshRank(charts[chartIdx], elemIdx - 1)
    /\ pc = "return" =>
          geometryId = 1 + MeshRank(charts[chartIdx], Len(charts[chartIdx].elements))

\* C1 witness: a chart [no mesh, mesh, mesh] assembled with the ids {1, 2}
C1_Witness ==
    /\ pc = "generated"
    /\ \E c \in 1..Len(result) :
          /\ Len(charts[c].elements) = 3
          /\ ~charts[c].elements[1].staticModel
          /\ charts[c].elements[2].staticModel
          /\ charts[c].elements[3].staticModel
          /\ ElementIds(result[c], charts[c].elements[2]) = {1}
          /\ ElementIds(result[c], charts[c].elements[3]) = {2}

\* All nodes of all assembled scenes
AllNodes ==
    UNION { { <<c, i>> : i \in 1..Len(result[c].scene.nodes) } : c \in 1..Len(result) }

\* C2: every assembled scene holds exactly 25 nodes per mesh-bearing element
\* and none for the others; the 25 nodes of an element carry one geometry id,
\* the element's model and its world position, rotation and scale; every
\* node has a material of its own, which is never the shared baking material.
C2_TwentyFiveInstancesPerElement ==
    /\ \A c \in 1..Len(result) :
          LET nodes == result[c].scene.nodes
              mesh == MeshElements(charts[c])
          IN  /\ Len(nodes) = 25 * Len(mesh)
              /\ \A j \in 1..Len(mesh) : \A t \in 1..25 :
                    LET node == nodes[25 * (j - 1) + t]
                    IN  /\ node.position = mesh[j].node.worldPosition
                        /\ node.rotation = mesh[j].node.worldRotation
                        /\ node.scale = mesh[j].node.worldScale
                        /\ node.model = mesh[j].model
                        /\ node.material.LightmapGeometry =
                              nodes[25 * (j - 1) + 1].material.LightmapGeometry
    /\ \A a \in AllNodes : result[a[1]].scene.nodes[a[2]].material.material # bakingMaterial
    /\ Cardinality({ result[a[1]].scene.nodes[a[2]].material.material : a \in AllNodes })
          = Cardinality(AllNodes)

\* C2 witness: a scene of 50 nodes for a chart of two mesh-bearing elements
\* and one without mesh
C2_Witness ==
    /\ pc = "generated"
    /\ \E c \in 1..Len(result) :
          /\ Len(charts[c].elements) = 3
          /\ Len(MeshElements(charts[c])) = 2
          /\ Len(result[c].scene.nodes) = 50

\* C3: when the render path fails to load, the scene list is empty, the log
\* holds exactly one error, which names the render path, no seam task was
\* submitted and no scene was built.
C3_RenderPathFailureReturnsNothing ==
    (~renderPathLoads /\ pc # "start") =>
        /\ result = <<>>
        /\ log = <<LogError("Failed to load render path", <<Settings.renderPathName>>)>>
        /\ \A m \in Models : submitted[m] = 0
        /\ collectSeamsTasks = <<>>
        /\ scene = <<>>
        /\ numMaterialClones = 0

\* C3 witness: the call has returned for a non-empty chart list that uses a
\* model, with the render path not loading
C3_Witness ==
    /\ ~renderPathLoads
    /\ pc = "generated"
    /\ \E c \in 1..Len(charts) : MeshElements(charts[c]) # <<>>

\* The buffer a successful bake of a scene yields: the decode of its render
ExpectedGeometryBuffer(bakingScene) ==
    LET n == bakingScene.width * bakingScene.height
        out == RenderView(bakingScene)
        Xyz(name) == [i \in 1..n |-> <<out[name][i][1], out[name][i][2], out[name][i][3]>>]
    IN  [index |-> bakingScene.index, width |-> bakingScene.width, height |-> bakingScene.height,
         geometryPositions |-> Xyz("position"),
         smoothPositions |-> Xyz("smoothposition"),
         faceNormals |-> Xyz("facenormal"),
         smoothNormals |-> Xyz("smoothnormal"),
         geometryIds |-> [i \in 1..n |-> out["position"][i][4] \div WUnit],
         overrun |-> FALSE]

FrameBeginErrors ==
    { i \in 1..Len(log) : log[i].format = "Failed to begin lightmap geometry buffer rendering" }

\* C4: the baker returns one buffer per scene, in input order; a scene whose
\* frame failed to begin yields the default buffer and one logged error, and
\* every other scene yields the buffer decoded from its own render.
C4_FailedFrameBeginIsLocal ==
    /\ pc \in BakePcs => Len(geometryBuffers) = sceneIdx - 1
    /\ pc = "baked" => Len(geometryBuffers) = Len(result)
    /\ \A i \in 1..Len(geometryBuffers) :
          \/ geometryBuffers[i] = DefaultGeometryBuffer
          \/ geometryBuffers[i] = ExpectedGeometryBuffer(result[i])
    /\ Cardinality({ i \in 1..Len(geometryBuffers) : geometryBuffers[i] = DefaultGeometryBuffer })
          = Cardinality(FrameBeginErrors)

\* C4 witness: the first scene's frame failed to begin and the second scene
\* was baked all the same
C4_Witness ==
    /\ pc = "baked"
    /\ Len(geometryBuffers) = 2
    /\ geometryBuffers[1] = DefaultGeometryBuffer
    /\ geometryBuffers[2] = ExpectedGeometryBuffer(result[2])
    /\ result[2].scene.nodes # <<>>

\* The seams of the model resource m when it imports: the two coincident
\* edges, seen from either side
ModelSeamsWhenImported(m) ==
    << [positions |-> << <<0, 0>>, <<20000, 0>> >>,
        otherPositions |-> << <<0, 5000 * m>>, <<20000, 5000 * m>> >>],
       [positions |-> << <<0, 5000 * m>>, <<20000, 5000 * m>> >>,
        otherPositions |-> << <<0, 0>>, <<20000, 0>> >>] >>

\* p * scale + offset on both segments of a seam
SeamInRegion(seam, region) ==
    LET T(p) == <<p[1] * region.scale[1] + region.offset[1],
                  p[2] * region.scale[2] + region.offset[2]>>
    IN  [positions |-> <<T(seam.positions[1]), T(seam.positions[2])>>,
         otherPositions |-> <<T(seam.otherPositions[1]), T(seam.otherPositions[2])>>]

RECURSIVE ExpectedSeams(_, _)
\* The seam list of a chart: per mesh-bearing element, in order, nothing for
\* a model whose import fails and the region-transformed seams otherwise
ExpectedSeams(mesh, failing) ==
    IF mesh = <<>> THEN <<>>
    ELSE (IF mesh[1].model \in failing THEN <<>>
          ELSE [i \in 1..2 |-> SeamInRegion(ModelSeamsWhenImported(mesh[1].model)[i], mesh[1].region)])
         \o ExpectedSeams(Tail(mesh), failing)

ImportErrors(m) ==
    { i \in 1..Len(log) : log[i] = LogError("Failed to import model", <<<<"Model", m>>>>) }

ChartsUsing(m) == { c \in 1..Len(charts) : m \in ChartUsedModels(charts[c]) }

\* C5: a model whose import fails yields no seams and an error naming it
\* (one per chart that uses it); the scenes are assembled all the same, with
\* 25 nodes for every element using the model, and the seams of the other
\* models are those of a round without the failure.
C5_ImportFailureIsNotFatal ==
    /\ \A i \in 1..Len(collectSeamsTasks) :
          (collectSeamsTasks[i].state = "done" /\ collectSeamsTasks[i].model \in failingModels)
             => collectSeamsTasks[i].result = <<>>
    /\ \A c \in 1..Len(result) :
          /\ result[c].seams = ExpectedSeams(MeshElements(charts[c]), failingModels)
          /\ Len(result[c].scene.nodes) = 25 * Len(MeshElements(charts[c]))
    /\ (pc = "generated" /\ renderPathLoads) =>
          /\ Len(result) = Len(charts)
          /\ \A m \in Models :
                Cardinality(ImportErrors(m)) =
                   IF m \in failingModels THEN Cardinality(ChartsUsing(m)) ELSE 0

\* C5 witness: a chart using a failing and a loading model was assembled:
\* 50 nodes, the seams of the loading model alone, and the error in the log
C5_Witness ==
    /\ pc = "generated"
    /\ failingModels = {1}
    /\ \E c \in 1..Len(result) :
          /\ ChartUsedModels(charts[c]) = {1, 2}
          /\ Len(MeshElements(charts[c])) = 2
          /\ Len(result[c].scene.nodes) = 50
          /\ Len(result[c].seams) = 2
    /\ ImportErrors(1) # {}

\* C6: whenever the calling thread is at or past the creation of the chart's
\* scene (scene and camera creation, node creation, reads of the cache),
\* every seam task of the chart has completed and the cache holds the result
\* of each of the chart's models.
C6_TasksJoinedBeforeAssembly ==
    pc \in {"scene", "replicate", "return"} =>
        /\ \A i \in 1..Len(collectSeamsTasks) : collectSeamsTasks[i].state = "done"
        /\ {collectSeamsTasks[i].model : i \in 1..Len(collectSeamsTasks)} = usedModels
        /\ DOMAIN modelSeamsCache = usedModels
        /\ \A i \in 1..Len(collectSeamsTasks) :
              modelSeamsCache[collectSeamsTasks[i].model] = collectSeamsTasks[i].result

\* C6 witness: scene creation is reached for a chart with two seam tasks
C6_Witness ==
    /\ pc = "scene"
    /\ Len(collectSeamsTasks) = 2
    /\ Cardinality(usedModels) = 2

\* C7: at most one frame is open at any time; a frame is begun only when
\* none is open and all earlier scenes' bakes have returned, and it stays
\* open exactly while its scene is rendered and read back.
C7_RendersAreSequential ==
    /\ framesOpen \in {0, 1}
    /\ pc = "beginframe" => (framesOpen = 0 /\ Len(geometryBuffers) = sceneIdx - 1)
    /\ pc \in {"render", "store", "endframe"} => framesOpen = 1
    /\ pc = "baked" => framesOpen = 0

\* C7 witness: the second scene's frame is about to begin after the first
\* scene's frame was begun and ended
C7_Witness ==
    /\ pc = "beginframe"
    /\ sceneIdx = 2
    /\ geometryBuffers[1] # DefaultGeometryBuffer

DetectedSeams ==
    [m \in Models |-> [fails \in BOOLEAN |->
        CollectModelSeams(ModelResource(m, IF fails THEN {m} ELSE {}), Settings.uvChannel)]]

RECURSIVE SeamsOfElements(_)
\* Element by element, the detected seams of the element's model with every
\* endpoint p taken to p * scale + offset of the element's region
SeamsOfElements(mesh) ==
    IF mesh = <<>> THEN <<>>
    ELSE LET modelSeams == DetectedSeams[mesh[1].model][mesh[1].model \in failingModels]
         IN  [i \in 1..Len(modelSeams) |-> SeamInRegion(modelSeams[i], mesh[1].region)]
             \o SeamsOfElements(Tail(mesh))

\* C13: the seam list of an assembled scene is the concatenation, over the
\* chart's mesh-bearing elements in element order, of the seams detected for
\* the element's model, every endpoint p of positions and otherPositions
\* taken to p * scale + offset of the element's region; a model used by k
\* elements contributes k times.  The list under construction is that of the
\* elements replicated so far.
C13_SeamsConcatenatedPerElement ==
    /\ \A c \in 1..Len(result) : result[c].seams = SeamsOfElements(MeshElements(charts[c]))
    /\ pc = "replicate" =>
          seams = SeamsOfElements(MeshElements(
                      [charts[chartIdx] EXCEPT !.elements = SubSeq(@, 1, elemIdx - 1)]))

\* C13 witness: a chart with two elements of one model, assembled with the
\* model's seams twice, in two different regions
C13_Witness ==
    /\ pc = "generated"
    /\ \E c \in 1..Len(result) :
          LET mesh == MeshElements(charts[c])
          IN  /\ Len(mesh) = 2
              /\ mesh[1].model = mesh[2].model
              /\ mesh[1].region # mesh[2].region
              /\ Len(DetectedSeams[mesh[1].model][FALSE]) = 2
              /\ Len(result[c].seams) = 4
              /\ result[c].seams[1] # result[c].seams[3]

\* The positions of the calling thread between MakeShared<Scene> and the
\* push_back of the chart's baking scene
BuildPcs == {"replicate", "return"}

\* The baking scenes alive: those held by the result vector and the one
\* under construction
AliveScenes == Len(result) + (IF pc \in BuildPcs THEN 1 ELSE 0)

\* C14 as claimed: at most one baking scene is alive at any time
C14_Original == AliveScenes <= 1

\* C14: the scenes of all charts are built before any of them is rendered
\* and stay alive together: while chart number chartIdx is assembled the
\* scenes of all earlier charts are held, and during the whole of the baking
\* (and after it) one scene per chart is held, each built for its own chart;
\* the baker renders the scenes one by one, each for its own buffer, and
\* releases none.
C14_AllScenesAliveTogether ==
    /\ \A c \in 1..Len(result) : result[c].index = charts[c].index
    /\ pc \in {"chart", "schedule", "join", "scene"} \cup BuildPcs => Len(result) = chartIdx - 1
    /\ (renderPathLoads /\ pc \in {"generated", "baked"} \cup BakePcs) =>
          /\ Len(result) = Len(charts)
          /\ AliveScenes = Len(charts)
    /\ pc \in BakePcs => sceneIdx \in 1..Len(result)
    /\ \A i \in 1..Len(geometryBuffers) :
          geometryBuffers[i] # DefaultGeometryBuffer => geometryBuffers[i].index = result[i].index

\* C14 witness: the first scene is being rendered while the second scene,
\* with its nodes, is alive; and the second scene was built while the first
\* one was held
C14_Witness ==
    /\ pc = "render"
    /\ sceneIdx = 1
    /\ Len(result) = 2
    /\ result[1].scene.nodes # <<>>
    /\ result[2].scene.nodes # <<>>

\* The charts whose union bounding box is undefined (no mesh-bearing element)
ChartsWithoutBox == { c \in 1..Len(charts) : ~ChartBoundingBox(charts[c]).defined }

\* C15 as claimed: when the union bounding box of some chart is undefined,
\* GenerateLightmapGeometryBakingScenes returns no scenes and builds no
\* scene with a camera fit to an undefined box.
C15_UndefinedBoxAborts ==
    (ChartsWithoutBox # {} /\ pc = "generated") =>
        /\ result = <<>>
        /\ \A c \in 1..Len(result) : result[c].camera.finite

\* The lengths of the five arrays of a geometry buffer
ArrayLengths(gb) ==
    { Len(gb.geometryPositions), Len(gb.smoothPositions), Len(gb.faceNormals),
      Len(gb.smoothNormals), Len(gb.geometryIds) }

\* The buffer carries the chart's index, width and height and each of its
\* arrays has width * height entries
SizedFor(gb, chart) ==
    /\ gb.index = chart.index /\ gb.width = chart.width /\ gb.height = chart.height
    /\ ArrayLengths(gb) = {chart.width * chart.height}

\* C16: every geometry buffer returned after a frame that began carries its
\* chart's index, width and height, and each of its five arrays has exactly
\* width * height entries; so has the buffer being filled, after every
\* output read back.
C16_ArraysHaveWidthTimesHeight ==
    /\ \A i \in 1..Len(geometryBuffers) :
          geometryBuffers[i] # DefaultGeometryBuffer => SizedFor(geometryBuffers[i], charts[i])
    /\ pc \in {"render", "store", "endframe"} => SizedFor(geometryBuffer, charts[sceneIdx])

\* C16 witness: the buffer of a chart of width 2 and height 2 with nodes in
\* its scene was returned, with four entries in its id array
C16_Witness ==
    /\ pc = "baked"
    /\ \E i \in 1..Len(geometryBuffers) :
          /\ geometryBuffers[i] # DefaultGeometryBuffer
          /\ charts[i].width = 2 /\ charts[i].height = 2
          /\ result[i].scene.nodes # <<>>
          /\ Len(geometryBuffers[i].geometryIds) = 4
          /\ \E k \in 1..4 : geometryBuffers[i].geometryIds[k] # 0

\* C17: when the render path loads, scene generation returns one baking
\* scene per chart, in the order of the charts, each with its chart's index,
\* width, height and size and with the one render path loaded at the start;
\* the baker returns one geometry buffer per scene, in the same order, and a
\* buffer whose frame began carries the index of its chart.
C17_OneScenePerChartOneBufferPerScene ==
    renderPathLoads =>
        /\ \A c \in 1..Len(result) :
              /\ result[c].index = charts[c].index
              /\ result[c].width = charts[c].width
              /\ result[c].height = charts[c].height
              /\ result[c].size = charts[c].size
              /\ result[c].renderPath = Settings.renderPathName
        /\ pc \in {"generated", "baked"} \cup BakePcs => Len(result) = Len(charts)
        /\ pc = "baked" => Len(geometryBuffers) = Len(charts)
        /\ \A i \in 1..Len(geometryBuffers) :
              geometryBuffers[i] # DefaultGeometryBuffer =>
                  geometryBuffers[i].index = charts[i].index

\* C17 witness: two charts, two scenes and two buffers whose frames began,
\* with the two different indices of the charts in the order of the charts
C17_Witness ==
    /\ renderPathLoads
    /\ pc = "baked"
    /\ Len(charts) = 2 /\ Len(result) = 2 /\ Len(geometryBuffers) = 2
    /\ charts[1].index # charts[2].index
    /\ geometryBuffers[1] # DefaultGeometryBuffer
    /\ geometryBuffers[2] # DefaultGeometryBuffer
    /\ geometryBuffers[1].index = charts[1].index
    /\ geometryBuffers[2].index = charts[2].index

\* Every id of the buffer is 0 and every position and normal is zero
AllDefault(gb) ==
    /\ \A k \in 1..Len(gb.geometryIds) : gb.geometryIds[k] = 0
    /\ \A k \in 1..Len(gb.geometryPositions) : gb.geometryPositions[k] = <<0, 0, 0>>
    /\ \A k \in 1..Len(gb.smoothPositions) : gb.smoothPositions[k] = <<0, 0, 0>>
    /\ \A k \in 1..Len(gb.faceNormals) : gb.faceNormals[k] = <<0, 0, 0>>
    /\ \A k \in 1..Len(gb.smoothNormals) : gb.smoothNormals[k] = <<0, 0, 0>>

\* C18: the scene of a chart with zero elements holds no node and no seam,
\* and the geometry buffer baked from it has every geometry id 0 and every
\* position and normal entry zero.
C18_EmptyChartGivesDefaultBuffer ==
    \A c \in 1..Len(result) :
        charts[c].elements = <<>> =>
            /\ result[c].scene.nodes = <<>>
            /\ result[c].seams = <<>>
            /\ c <= Len(geometryBuffers) => AllDefault(geometryBuffers[c])
            /\ (sceneIdx = c /\ pc \in {"render", "store", "endframe"}) => AllDefault(geometryBuffer)

\* C18 witness: a chart with zero elements, next to a chart with nodes, was
\* baked in a frame that began: its buffer has width * height entries, all
\* of them default
C18_Witness ==
    /\ pc = "baked"
    /\ \E c \in 1..Len(geometryBuffers) : \E d \in 1..Len(geometryBuffers) :
          /\ charts[c].elements = <<>>
          /\ result[d].scene.nodes # <<>>
          /\ geometryBuffers[c] # DefaultGeometryBuffer
          /\ Len(geometryBuffers[c].geometryIds) = charts[c].width * charts[c].height
          /\ AllDefault(geometryBuffers[c])
          /\ ~AllDefault(geometryBuffers[d])

\* C19: a second bake of a scene returns the buffer the first bake of it
\* returned (both frames having begun), whether it is the only scene or
\* scenes of other sizes are baked in between; after every read-back the
\* scratch buffer holds the texels of the output just read and nothing else,
\* and no write passes the end of an array.
C19_BakingIsIdempotent ==
    /\ \A i \in 1..Len(geometryBuffers) :
          (bakeRound > 1 /\ geometryBuffers[i] # DefaultGeometryBuffer
                         /\ previousBuffers[i] # DefaultGeometryBuffer)
             => geometryBuffers[i] = previousBuffers[i]
    /\ (pc \in {"store", "endframe"} /\ readIdx > 1) =>
          /\ buffer = renderTargets[OutputNames[readIdx - 1]]
          /\ Len(buffer) = result[sceneIdx].size[1] * result[sceneIdx].size[2]
          /\ ~geometryBuffer.overrun

\* C19 witness: two scenes of different sizes, both with nodes, baked twice
\* in frames that began, the first scene's second bake following the bake of
\* the larger second scene
C19_Witness ==
    /\ pc = "baked"
    /\ bakeRound = 2
    /\ Len(geometryBuffers) = 2
    /\ Len(previousBuffers) = 2
    /\ \A i \in 1..2 :
          /\ previousBuffers[i] # DefaultGeometryBuffer
          /\ geometryBuffers[i] = previousBuffers[i]
          /\ result[i].scene.nodes # <<>>
          /\ \E k \in 1..Len(geometryBuffers[i].geometryIds) : geometryBuffers[i].geometryIds[k] # 0
    /\ Len(geometryBuffers[1].geometryIds) < Len(geometryBuffers[2].geometryIds)

\* What a sequential run caches for a set of models
SequentialCache(models) == [m \in models |-> DetectedSeams[m][(m \in failingModels)]]

\* C20: whatever the order in which the tasks are scheduled, run and
\* complete, a completed task holds the seams of its own model, which depend
\* on nothing but the model, and once the tasks are joined the cache maps
\* every model of the chart to the seams a sequential run detects for it.
C20_CacheIndependentOfSchedule ==
    /\ \A i \in 1..Len(collectSeamsTasks) :
          collectSeamsTasks[i].state = "done" =>
              collectSeamsTasks[i].result = SequentialCache(usedModels)[collectSeamsTasks[i].model]
    /\ pc \in {"scene", "replicate", "return"} => modelSeamsCache = SequentialCache(usedModels)
    /\ pc = "join" =>
          modelSeamsCache = SequentialCache({collectSeamsTasks[i].model : i \in 1..(joinIdx - 1)})

\* C20 witness: the task scheduled second has completed, with seams, while
\* the task scheduled first has not run and the caller waits for it; the
\* second task is that of the lower-numbered model
C20_Witness ==
    /\ pc = "join"
    /\ joinIdx = 1
    /\ Len(collectSeamsTasks) = 2
    /\ collectSeamsTasks[1].state = "scheduled"
    /\ collectSeamsTasks[2].state = "done"
    /\ collectSeamsTasks[2].model < collectSeamsTasks[1].model
    /\ collectSeamsTasks[2].result # <<>>

\* The union of the world bounding boxes of the mesh-bearing elements of a
\* chart that has one
UnionBox(chart) ==
    LET boxes == { chart.elements[k].worldBoundingBox
                   : k \in { j \in 1..Len(chart.elements) : chart.elements[j].staticModel } }
    IN  [min |-> [a \in 1..3 |-> SetMin({b.min[a] : b \in boxes})],
         max |-> [a \in 1..3 |-> SetMax({b.max[a] : b \in boxes})]]

\* The camera is orthographic, looks forward and its view volume is the box
FitsBox(camera, B) ==
    /\ camera.finite
    /\ camera.orthographic
    /\ camera.direction = "FORWARD"
    /\ 2 * camera.position[1] = B.min[1] + B.max[1]
    /\ 2 * camera.position[2] = B.min[2] + B.max[2]
    /\ camera.position[3] = B.min[3] - zNear
    /\ camera.orthoSize = <<B.max[1] - B.min[1], B.max[2] - B.min[2]>>
    /\ camera.nearClip = zNear
    /\ camera.farClip = (B.max[3] - B.min[3]) + zNear
    /\ camera.position[3] + camera.nearClip = B.min[3]
    /\ camera.position[3] + camera.farClip = B.max[3]

\* The box lies inside the view volume of the camera
InsideViewVolume(camera, box) ==
    /\ \A a \in 1..2 :
          /\ 2 * camera.position[a] - camera.orthoSize[a] <= 2 * box.min[a]
          /\ 2 * box.max[a] <= 2 * camera.position[a] + camera.orthoSize[a]
    /\ camera.position[3] + camera.nearClip <= box.min[3]
    /\ box.max[3] <= camera.position[3] + camera.farClip

\* C21: the camera of the scene of a chart with a mesh-bearing element is
\* orthographic and fit to the union B of the world bounding boxes of the
\* mesh-bearing elements alone: at B's centre in x and y and at B.min.z -
\* zNear, looking forward, ortho size B's x and y extents, near clip zNear,
\* far clip B's z extent + zNear; the near plane is at B.min.z, the far plane
\* at B.max.z, and the box of every mesh-bearing element is inside the view
\* volume.
C21_CameraFitsUnionBox ==
    \A c \in 1..Len(result) :
        MeshElements(charts[c]) # <<>> =>
            /\ FitsBox(result[c].camera, UnionBox(charts[c]))
            /\ \A k \in 1..Len(charts[c].elements) :
                  charts[c].elements[k].staticModel =>
                      InsideViewVolume(result[c].camera, charts[c].elements[k].worldBoundingBox)

\* C21 witness: the scene of a chart with two mesh-bearing elements and an
\* element without mesh whose box is not inside the view volume
C21_Witness ==
    /\ pc = "generated"
    /\ \E c \in 1..Len(result) :
          /\ Len(MeshElements(charts[c])) = 2
          /\ FitsBox(result[c].camera, UnionBox(charts[c]))
          /\ \E k \in 1..Len(charts[c].elements) :
                /\ ~charts[c].elements[k].staticModel
                /\ ~InsideViewVolume(result[c].camera, charts[c].elements[k].worldBoundingBox)

\* The whole number n with n <= w < n + 1, w in units of 1 / WUnit
Truncated(w) == CHOOSE n \in 0..w : n * WUnit <= w /\ w < (n + 1) * WUnit

\* The first three components of a texel
Xyz(texel) == <<texel[1], texel[2], texel[3]>>

\* Texel by texel, the arrays of the buffer are the xyz of the four outputs
\* and the truncated w of "position"
DecodedFrom(gb, outputs) ==
    \A i \in 1..Len(gb.geometryIds) :
        /\ gb.geometryPositions[i] = Xyz(outputs["position"][i])
        /\ gb.geometryIds[i] = Truncated(outputs["position"][i][4])
        /\ gb.smoothPositions[i] = Xyz(outputs["smoothposition"][i])
        /\ gb.faceNormals[i] = Xyz(outputs["facenormal"][i])
        /\ gb.smoothNormals[i] = Xyz(outputs["smoothnormal"][i])

\* C22: in every buffer baked in a frame that began, texel by texel, the
\* world position is the xyz and the geometry id the truncated w of the same
\* texel of the "position" output; the smoothed position, the face normal and
\* the smoothed normal are the xyz of the "smoothposition", "facenormal" and
\* "smoothnormal" outputs, whose w (never zero where geometry shows) is in
\* no array.
C22_PositionAndIdFromOneReadBack ==
    /\ \A c \in 1..Len(geometryBuffers) :
          geometryBuffers[c] # DefaultGeometryBuffer =>
              DecodedFrom(geometryBuffers[c], RenderView(result[c]))
    /\ pc = "endframe" => DecodedFrom(geometryBuffer, renderTargets)

\* C22 witness: a buffer with a texel whose "position" w has a fraction, the
\* id being the whole part, and whose other outputs carry a w that would
\* decode to a different id
C22_Witness ==
    /\ pc = "baked"
    /\ \E c \in 1..Len(geometryBuffers) :
          /\ geometryBuffers[c] # DefaultGeometryBuffer
          /\ \E i \in 1..Len(geometryBuffers[c].geometryIds) :
                LET outputs == RenderView(result[c])
                IN  /\ outputs["position"][i][4] % WUnit # 0
                    /\ geometryBuffers[c].geometryIds[i] = 1
                    /\ Truncated(outputs["facenormal"][i][4]) # 1
                    /\ Truncated(outputs["smoothnormal"][i][4]) # 1

\* C23: every entry of the error log carries the name of the resource or
\* chart it concerns, the entry of a failed frame begin included.
C23_EveryErrorCarriesAName ==
    \A i \in 1..Len(log) : log[i].level = "error" => Len(log[i].arguments) = 1

\* BakeLightmapGeometryBuffer returns in this step: its buffer is pushed
BakeReturns == Len(geometryBuffers') = Len(geometryBuffers) + 1

\* C27: a frame is ended only in the step in which the bake of a scene
\* returns, once, after all four outputs were read back; every return leaves
\* no frame open; and a frame that failed to begin is followed, up to the
\* return, by no render, no read-back and no frame end.
C27_FrameBeginAndEndAreBalanced ==
    [][ /\ framesOpen' < framesOpen =>
              /\ framesOpen = 1 /\ framesOpen' = 0
              /\ readIdx = Len(OutputNames) + 1
              /\ BakeReturns
        /\ BakeReturns => framesOpen' = 0
        /\ (pc = "beginframe" /\ framesOpen' = framesOpen) =>
              /\ BakeReturns
              /\ geometryBuffers'[Len(geometryBuffers')] = DefaultGeometryBuffer
              /\ renderTargets' = renderTargets /\ buffer' = buffer /\ readIdx' = readIdx
        /\ (renderTargets' # renderTargets \/ buffer' # buffer \/ readIdx' # readIdx) =>
              ((framesOpen = 1 /\ framesOpen' = 1) \/ framesOpen' < framesOpen)
      ]_vars

\* C27 witness: the first scene's frame began, its four outputs were read
\* back and it was ended; the second scene's frame failed to begin; no frame
\* is open
C27_Witness ==
    /\ pc = "baked"
    /\ Len(geometryBuffers) = 2
    /\ geometryBuffers[1] # DefaultGeometryBuffer
    /\ geometryBuffers[2] = DefaultGeometryBuffer
    /\ readIdx = Len(OutputNames) + 1
    /\ framesOpen = 0

(***************************************************************************)
(* Specification of the pipeline over charts whose physical size is not    *)
(* their width and height                                                  *)
(***************************************************************************)
\* Differences between the second component of size_ and height_
SizeDeltas == {-1, 0, 1}

\* The chart list with every size_ taller by delta than width_ x height_
Resized(chartList, delta) ==
    [c \in 1..Len(chartList) |-> [chartList[c] EXCEPT !.size = <<@[1], @[2] + delta>>]]

ResizedChartLists == { Resized(chartList, delta) : chartList \in ChartLists, delta \in SizeDeltas }

ResizedInit ==
    /\ charts \in ResizedChartLists
    /\ renderPathLoads = TRUE
    /\ failingModels = {}
    /\ pc = "start"
    /\ chartIdx = 0
    /\ boundingBox = UndefinedBox
    /\ usedModels = {}
    /\ collectSeamsTasks = <<>>
    /\ joinIdx = 0
    /\ modelSeamsCache = <<>>
    /\ scene = <<>>
    /\ geometryId = 0
    /\ seams = <<>>
    /\ elemIdx = 0
    /\ result = <<>>
    /\ numMaterialClones = 0
    /\ submitted = [m \in Models |-> 0]
    /\ log = <<>>
    /\ BakeIdle
    /\ SeamIdle

ResizedSpec == ResizedInit /\ [][Next]_vars

\* C26: no store of a read-back output writes past the end of an array of
\* the geometry buffer, whatever the chart's size_ is.
C26_DecodeStaysInsideTheArrays ==
    /\ \A c \in 1..Len(geometryBuffers) : ~geometryBuffers[c].overrun
    /\ pc \in {"store", "endframe"} => ~geometryBuffer.overrun

(***************************************************************************)
(* Properties of seam detection                                            *)
(***************************************************************************)
\* The LOD of the model under seam detection
TheLod == seamModel.geometries[1].lods[1]

\* The undirected triangle edges of a LOD, as (smaller, larger) index pairs
UndirectedEdges(lod) ==
    { <<Min(lod.indices[3 * f + a], lod.indices[3 * f + b]),
        Max(lod.indices[3 * f + a], lod.indices[3 * f + b])>>
      : f \in 0..((Len(lod.indices) \div 3) - 1),
        a \in 1..3, b \in 1..3 } \ { <<i, i>> : i \in 0..Len(lod.vertices) }

Reversed(edge) == <<edge[2], edge[1]>>

\* Endpoint by endpoint, in the order given, the two edges have the same
\* position and normal within the tolerance
CoincideAs(lod, e, c) ==
    /\ WithinEps3(VSub3(VertexAt(lod, e[1]).position, VertexAt(lod, c[1]).position))
    /\ WithinEps3(VSub3(VertexAt(lod, e[2]).position, VertexAt(lod, c[2]).position))
    /\ WithinEps3(VSub3(VertexAt(lod, e[1]).normal, VertexAt(lod, c[1]).normal))
    /\ WithinEps3(VSub3(VertexAt(lod, e[2]).normal, VertexAt(lod, c[2]).normal))

\* Endpoint by endpoint, in the order given, the two edges have the same UV
UvMatchAs(lod, uvChannel, e, c) ==
    /\ WithinEps2(VSub2(UvOf(VertexAt(lod, e[1]), uvChannel), UvOf(VertexAt(lod, c[1]), uvChannel)))
    /\ WithinEps2(VSub2(UvOf(VertexAt(lod, e[2]), uvChannel), UvOf(VertexAt(lod, c[2]), uvChannel)))

\* The UV segment of c does not lie on the UV line of e, by the tolerance of
\* the cross product test
OffUvLineOf(lod, uvChannel, e, c) ==
    LET a0 == UvOf(VertexAt(lod, e[1]), uvChannel)
        a1 == UvOf(VertexAt(lod, e[2]), uvChannel)
        b0 == UvOf(VertexAt(lod, c[1]), uvChannel)
        b1 == UvOf(VertexAt(lod, c[2]), uvChannel)
        Area(p) == (a1[1] - a0[1]) * (p[2] - a0[2]) - (a1[2] - a0[2]) * (p[1] - a0[1])
    IN  Abs(Area(b0)) >= Eps * UnitsPerOne \/ Abs(Area(b1)) >= Eps * UnitsPerOne

\* The edge is at least twice the position tolerance long
LongEdge(lod, e) ==
    LET d == VSub3(VertexAt(lod, e[1]).position, VertexAt(lod, e[2]).position)
    IN  \/ Abs(d[1]) >= 2 * Eps \/ Abs(d[2]) >= 2 * Eps \/ Abs(d[3]) >= 2 * Eps
        \/ d[1] * d[1] + d[2] * d[2] + d[3] * d[3] >= 4 * Eps * Eps

\* The pairs (e, c) of distinct edges, c in the direction in which it
\* coincides with e
CoincidentPairs(lod) ==
    { p \in { <<e, c>> : e \in UndirectedEdges(lod),
                         c \in UndirectedEdges(lod) \cup { Reversed(x) : x \in UndirectedEdges(lod) } }
      : /\ p[1] # p[2] /\ p[1] # Reversed(p[2])
        /\ CoincideAs(lod, p[1], p[2]) }

\* The seam record of edge e against c, c in the direction of e
SeamRecord(lod, uvChannel, e, c) ==
    [positions |-> <<UvOf(VertexAt(lod, e[1]), uvChannel), UvOf(VertexAt(lod, e[2]), uvChannel)>>,
     otherPositions |-> <<UvOf(VertexAt(lod, c[1]), uvChannel), UvOf(VertexAt(lod, c[2]), uvChannel)>>]

\* The model has exactly one pair of edges that share a 3-D edge, at least
\* twice the tolerance long, and the pair maps it to two different UV
\* segments neither of which lies on the other's UV line.  A pair is found
\* from either edge, so it is two entries of CoincidentPairs.
OneSeamPair(lod, uvChannel) ==
    /\ Cardinality(CoincidentPairs(lod)) = 2
    /\ \A p \in CoincidentPairs(lod) :
          /\ LongEdge(lod, p[1])
          /\ ~UvMatchAs(lod, uvChannel, p[1], p[2])
          /\ OffUvLineOf(lod, uvChannel, p[1], p[2])

\* C9 as claimed: one seam record for a model with one such pair
C9_Original ==
    (seamPc = "done" /\ seamModel.importable /\ OneSeamPair(TheLod, seamUvChannel))
        => Len(seamResult) = 1

\* C9: for a model with one such pair, seam detection returns exactly two
\* seam records, one from either edge of the pair: each holds its edge's UV
\* segment as positions and the other edge's UV segment, in the direction of
\* its edge, as otherPositions; the record of the smaller edge comes first.
C9_OneRecordFromEitherEdge ==
    (seamPc = "done" /\ seamModel.importable /\ OneSeamPair(TheLod, seamUvChannel))
        => \E p \in CoincidentPairs(TheLod) : \E q \in CoincidentPairs(TheLod) :
              /\ PairLess(p[1], q[1])
              /\ seamResult = << SeamRecord(TheLod, seamUvChannel, p[1], p[2]),
                                 SeamRecord(TheLod, seamUvChannel, q[1], q[2]) >>

\* C9 witness: such a model whose second edge runs against the first one
\* (so the candidate has to be swapped), with its two records
C9_Witness ==
    /\ seamPc = "done"
    /\ seamModel.importable
    /\ OneSeamPair(TheLod, seamUvChannel)
    /\ \E p \in CoincidentPairs(TheLod) : p[2][1] > p[2][2]
    /\ Len(seamResult) = 2

\* Whenever two distinct edges coincide in position and normal (in either
\* direction), their UVs match at both endpoints (in that direction)
NoDuplicateUvs(lod, uvChannel) ==
    \A p \in CoincidentPairs(lod) : UvMatchAs(lod, uvChannel, p[1], p[2])

\* C10: a model in which coincident edges always have matching UVs at both
\* endpoints has no seams.
C10_NoSeamsWithoutDuplicateUvs ==
    (seamPc = "done" /\ NoDuplicateUvs(TheLod, seamUvChannel)) => seamResult = <<>>

\* C10 witness: a model with a pair of coincident edges of matching UVs, and
\* no seam returned
C10_Witness ==
    /\ seamPc = "done"
    /\ seamModel.importable
    /\ CoincidentPairs(TheLod) # {}
    /\ NoDuplicateUvs(TheLod, seamUvChannel)
    /\ seamResult = <<>>

\* The three UV points lie on one line
OnOneUvLine(a, b, c) == CrossZ(VSub2(b, a), VSub2(c, a)) = 0

\* The UV segments of the two edges lie on one line
UvSegmentsOnOneLine(lod, uvChannel, e, c) ==
    LET a0 == UvOf(VertexAt(lod, e[1]), uvChannel)
        a1 == UvOf(VertexAt(lod, e[2]), uvChannel)
        b0 == UvOf(VertexAt(lod, c[1]), uvChannel)
        b1 == UvOf(VertexAt(lod, c[2]), uvChannel)
    IN  /\ OnOneUvLine(a0, a1, b0) /\ OnOneUvLine(a0, a1, b1)
        /\ OnOneUvLine(a0, b0, b1) /\ OnOneUvLine(a1, b0, b1)

\* Every pair of coincident edges has its two UV segments on one UV line
AllPairsUvCollinear(lod, uvChannel) ==
    \A p \in CoincidentPairs(lod) : UvSegmentsOnOneLine(lod, uvChannel, p[1], p[2])

\* C11: a model whose coincident edges have their UV segments on one UV line
\* has no seams, whatever the direction and the origin of the line, the
\* lengths of the UV segments (zero included) and the difference of the UVs.
C11_NoSeamOnOneUvLine ==
    (seamPc = "done" /\ AllPairsUvCollinear(TheLod, seamUvChannel)) => seamResult = <<>>

\* C11 witness: coincident edges with different UVs on a UV line that is
\* neither horizontal nor vertical nor through the origin, the UV segment of
\* one edge of length zero, and no seam returned
C11_Witness ==
    /\ seamPc = "done"
    /\ seamModel.importable
    /\ AllPairsUvCollinear(TheLod, seamUvChannel)
    /\ \E p \in CoincidentPairs(TheLod) :
          LET a0 == UvOf(VertexAt(TheLod, p[1][1]), seamUvChannel)
              a1 == UvOf(VertexAt(TheLod, p[1][2]), seamUvChannel)
              b0 == UvOf(VertexAt(TheLod, p[2][1]), seamUvChannel)
              b1 == UvOf(VertexAt(TheLod, p[2][2]), seamUvChannel)
          IN  /\ ~UvMatchAs(TheLod, seamUvChannel, p[1], p[2])
              /\ a0 = a1 /\ a0 # <<0, 0>>
              /\ b0[1] # b1[1] /\ b0[2] # b1[2]
    /\ seamResult = <<>>

(***************************************************************************)
(* Properties of seam detection on a mesh stored in two ways               *)
(***************************************************************************)
\* The seam record with both of its segments in the opposite direction
ReversedSeam(seam) ==
    [positions |-> <<seam.positions[2], seam.positions[1]>>,
     otherPositions |-> <<seam.otherPositions[2], seam.otherPositions[1]>>]

\* The seam records of a result, each in both directions
UpToDirection(seamVector) ==
    Range(seamVector) \cup { ReversedSeam(seam) : seam \in Range(seamVector) }

\* Every edge that coincides with another is at least twice the position
\* tolerance long
CoincidentEdgesAreLong(lod) == \A p \in CoincidentPairs(lod) : LongEdge(lod, p[1])

\* C12 as claimed: the same set of seam records for the mesh renumbered or
\* rewound
C12_Original ==
    seamPc = "relabelled" => Range(seamVariantResult) = Range(seamResult)

\* C12: reversing the index order of triangles leaves the returned seam
\* vector as it is; renumbering the vertices (indices remapped) leaves the
\* set of seam records as it is up to the direction of a record (both of its
\* segments reversed together), provided the coincident edges are at least
\* twice the position tolerance long.
C12_InvariantUpToDirection ==
    seamPc = "relabelled" =>
        /\ seamVariant.perm = IdentityPerm => seamVariantResult = seamResult
        /\ CoincidentEdgesAreLong(TheLod) =>
              UpToDirection(seamVariantResult) = UpToDirection(seamResult)

\* C12 witness: a mesh with seams, renumbered so that the first edge changes
\* direction and with a triangle rewound; the records are those of the mesh
\* as given, in the opposite direction
C12_Witness ==
    /\ seamPc = "relabelled"
    /\ CoincidentEdgesAreLong(TheLod)
    /\ seamResult # <<>>
    /\ seamVariant.perm[0] = 1 /\ seamVariant.perm[1] = 0
    /\ seamVariant.faces # {}
    /\ Range(seamVariantResult) # Range(seamResult)
    /\ UpToDirection(seamVariantResult) = UpToDirection(seamResult)

RECURSIVE AllPairsSeamsFrom(_, _, _, _)
\* The seams of a LOD when every edge is compared with every edge of the LOD
\* (in the order of the edge list), with the acceptance test of the candidate
\* loop
AllPairsSeamsFrom(lod, uvChannel, geometryEdges, k) ==
    IF k > Len(geometryEdges) THEN <<>>
    ELSE EdgeSeams(lod, uvChannel, geometryEdges[k], geometryEdges, 1)
         \o AllPairsSeamsFrom(lod, uvChannel, geometryEdges, k + 1)

\* The endpoints of c are within the position tolerance of the endpoints of
\* e, in one direction or the other
EndpointsWithinTolerance(lod, e, c) ==
    LET P(i) == VertexAt(lod, i).position
    IN  \/ WithinEps3(VSub3(P(e[1]), P(c[1]))) /\ WithinEps3(VSub3(P(e[2]), P(c[2])))
        \/ WithinEps3(VSub3(P(e[1]), P(c[2]))) /\ WithinEps3(VSub3(P(e[2]), P(c[1])))

\* The hash cells of the two endpoints of an edge
CellsOf(lod, box, e) ==
    { computeHash(VertexAt(lod, e[1]).position, box),
      computeHash(VertexAt(lod, e[2]).position, box) }

\* C24: the seams returned for a model are those found by comparing every
\* edge of the LOD with every edge of the LOD under the same acceptance
\* test, in the same order; and every edge whose endpoints are within the
\* position tolerance of an edge's endpoints is among that edge's candidates.
C24_HashIsOnlyAnAccelerator ==
    (seamPc = "done" /\ seamModel.importable) =>
        LET box == CalculateBoundingBox(seamModel)
            geometryEdges == GeometryEdges(TheLod)
            geometryEdgesHash == GeometryEdgesHash(TheLod, box, geometryEdges)
        IN  /\ seamResult = AllPairsSeamsFrom(TheLod, seamUvChannel, geometryEdges, 1)
            /\ \A e \in Range(geometryEdges), c \in Range(geometryEdges) :
                  EndpointsWithinTolerance(TheLod, e, c) =>
                      c \in Range(Candidates(TheLod, box, geometryEdgesHash, e))

\* C24 witness: a model whose bounding box is flat, with a seam between two
\* edges no endpoint of which shares a hash cell with an endpoint of the other
C24_Witness ==
    /\ seamPc = "done"
    /\ seamModel.importable
    /\ LET box == CalculateBoundingBox(seamModel)
       IN  /\ box.min[3] = box.max[3]
           /\ \E e \in Range(GeometryEdges(TheLod)), c \in Range(GeometryEdges(TheLod)) :
                 /\ IsSeam(TheLod, seamUvChannel, e, c)
                 /\ MakeSeam(TheLod, seamUvChannel, e, c) \in Range(seamResult)
                 /\ CellsOf(TheLod, box, e) \cap CellsOf(TheLod, box, c) = {}

\* The edges of a LOD in both directions
DirectedEdges(lod) == UndirectedEdges(lod) \cup { Reversed(x) : x \in UndirectedEdges(lod) }

\* The record is that of an edge e and another edge c, taken in a direction
\* in which its endpoints have, index by index, the position and normal of
\* the endpoints of e, the UVs of the two not matching at both endpoints
CorrespondingPairOf(lod, uvChannel, seam) ==
    \E e \in UndirectedEdges(lod), c \in DirectedEdges(lod) :
        /\ c # e /\ c # Reversed(e)
        /\ CoincideAs(lod, e, c)
        /\ ~UvMatchAs(lod, uvChannel, e, c)
        /\ seam = SeamRecord(lod, uvChannel, e, c)

\* C25: every seam returned is the record of two distinct edges whose
\* endpoints correspond index by index (same position and normal within the
\* tolerance) in the direction recorded, and whose UV segments do not match
\* at both endpoints.
C25_EndpointsCorrespondAfterSwap ==
    (seamPc = "done" /\ seamModel.importable) =>
        \A i \in 1..Len(seamResult) :
            CorrespondingPairOf(TheLod, seamUvChannel, seamResult[i])

\* C25 witness: a seam whose candidate was swapped, the two UVs of the
\* candidate being different
C25_Witness ==
    /\ seamPc = "done"
    /\ seamModel.importable
    /\ \E e \in Range(GeometryEdges(TheLod)), c \in Range(GeometryEdges(TheLod)) :
          /\ IsSeam(TheLod, seamUvChannel, e, c)
          /\ OrientCandidate(TheLod, e, c) # c
          /\ UvOf(VertexAt(TheLod, c[1]), seamUvChannel) # UvOf(VertexAt(TheLod, c[2]), seamUvChannel)
          /\ SeamRecord(TheLod, seamUvChannel, e, Reversed(c)) \in Range(seamResult)

\* The seam record seen from the other edge
MirroredSeam(seam) == [positions |-> seam.otherPositions, otherPositions |-> seam.positions]

\* C28: for every seam returned, pairing an edge E (as positions) with an
\* edge C (as otherPositions), the mirrored seam pairing C with E is returned
\* as well (in the direction of C, which may be the opposite one).
C28_SeamEmissionIsSymmetric ==
    (seamPc = "done" /\ seamModel.importable) =>
        \A i \in 1..Len(seamResult) :
            MirroredSeam(seamResult[i]) \in UpToDirection(seamResult)

(***************************************************************************)
(* Specification of seam detection on models of several geometries and     *)
(* LODs                                                                    *)
(***************************************************************************)
\* Two triangles whose edges 0-1 and 3-4 share a 3-D edge, in either
\* direction, with the same UVs or with UVs of their own
LodFamily ==
    { TwoTriangleLod(<<10, 0, 0>>, <<20000, 0>>, p[1], p[2], <<NormalUp, NormalUp>>,
                     uv[1], uv[2], <<0, 1, 2, 3, 4, 5>>, 0)
      : p \in { << <<j, 0, 0>>, <<10, 0, 0>> >> : j \in 0..PosJitter }
              \cup { << <<10 + j, 0, 0>>, <<0, 0, 0>> >> : j \in 0..PosJitter },
        uv \in { << <<0, 0>>, <<20000, 0>> >>, << <<0, 10000>>, <<20000, 10000>> >> } }

\* The LOD made of the first triangle, and of the second triangle, of a LOD
FirstTriangle(lod) == [vertices |-> SubSeq(lod.vertices, 1, 3), indices |-> <<0, 1, 2>>]
SecondTriangle(lod) == [vertices |-> SubSeq(lod.vertices, 4, 6), indices |-> <<0, 1, 2>>]

\* Models with the two triangles in one LOD, in two LODs of one geometry,
\* or in two geometries, next to a geometry without LODs or another LOD
LodModels ==
    { [name |-> "seam-model", importable |-> TRUE, geometries |-> << [lods |-> <<a>>] >>]
      : a \in LodFamily }
    \cup
    { [name |-> "seam-model", importable |-> TRUE,
       geometries |-> << [lods |-> <<FirstTriangle(a), SecondTriangle(a)>>], [lods |-> <<b>>] >>]
      : a \in LodFamily, b \in LodFamily }
    \cup
    { [name |-> "seam-model", importable |-> TRUE,
       geometries |-> << [lods |-> <<FirstTriangle(a)>>], [lods |-> <<>>],
                         [lods |-> <<SecondTriangle(a), b>>] >>]
      : a \in LodFamily, b \in LodFamily }

LodInit ==
    /\ GenerateIdle /\ BakeIdle
    /\ log = <<>>
    /\ seamPc = "input"
    /\ seamModel \in LodModels
    /\ seamUvChannel \in {0}
    /\ seamResult = <<>>
    /\ seamVariant = <<>>
    /\ seamVariantResult = <<>>
    /\ edgeList = <<>>

LodSpec == LodInit /\ [][SeamNext]_vars

\* The LODs of a model, geometry by geometry, in order
RECURSIVE LodsFrom(_, _)
LodsFrom(geometries, g) ==
    IF g > Len(geometries) THEN <<>>
    ELSE geometries[g].lods \o LodsFrom(geometries, g + 1)

\* The seam vectors of the LODs lodList[k..], each LOD taken as a model of
\* its own, one after the other
RECURSIVE PerLodSeamsFrom(_, _, _)
PerLodSeamsFrom(lodList, uvChannel, k) ==
    IF k > Len(lodList) THEN <<>>
    ELSE CollectModelSeams(SeamModel(TRUE, lodList[k]), uvChannel)
         \o PerLodSeamsFrom(lodList, uvChannel, k + 1)

\* The edge 0-1 of lodA and the edge 0-1 of lodB share a 3-D edge, in one
\* direction or the other, with UVs that do not match in that direction
SeamAcross(lodA, lodB, uvChannel) ==
    LET A(i) == lodA.vertices[i + 1]
        B(i) == lodB.vertices[i + 1]
        Same(a, b) == /\ WithinEps3(VSub3(a.position, b.position))
                      /\ WithinEps3(VSub3(a.normal, b.normal))
        SameUv(a, b) == WithinEps2(VSub2(UvOf(a, uvChannel), UvOf(b, uvChannel)))
    IN  \/ Same(A(0), B(0)) /\ Same(A(1), B(1)) /\ ~(SameUv(A(0), B(0)) /\ SameUv(A(1), B(1)))
        \/ Same(A(0), B(1)) /\ Same(A(1), B(0)) /\ ~(SameUv(A(0), B(1)) /\ SameUv(A(1), B(0)))

\* C29: the seams returned for a model are the seams of its LODs, each LOD
\* matched on its own as if it were the whole model, concatenated geometry
\* by geometry and LOD by LOD; edges of different LODs or geometries form no
\* seam.
C29_SeamsArePerLod ==
    seamPc = "done" =>
        seamResult = PerLodSeamsFrom(LodsFrom(seamModel.geometries, 1), seamUvChannel, 1)

\* C29 witness: a model of three geometries, one without LODs; an edge of the
\* first geometry shares a 3-D edge, with other UVs, with an edge of the
\* first LOD of the third geometry, and the seams returned are those of the
\* second LOD of the third geometry alone
C29_Witness ==
    /\ seamPc = "done"
    /\ Len(seamModel.geometries) = 3
    /\ SeamAcross(seamModel.geometries[1].lods[1], seamModel.geometries[3].lods[1], seamUvChannel)
    /\ seamResult # <<>>
    /\ seamResult = CollectModelSeams(SeamModel(TRUE, seamModel.geometries[3].lods[2]), seamUvChannel)

(***************************************************************************)
(* Specification of the reading of the edges of one LOD                    *)
(***************************************************************************)
\* Most faces of an index buffer
MaxFaces == 2

\* The vertex indices an index buffer may hold
EdgeIndexChoices == 0..3

\* Index buffers of up to MaxFaces faces, every index any of the choices:
\* faces sharing edges in either direction, repeated and degenerate faces
IndexBuffers == UNION { [1..(3 * n) -> EdgeIndexChoices] : n \in 0..MaxFaces }

\* One LOD of six vertices under every index buffer
EdgeModels ==
    { SeamModel(TRUE, TwoTriangleLod(<<10, 0, 0>>, <<20000, 0>>, <<0, 0, 0>>, <<10, 0, 0>>,
                                     <<NormalUp, NormalUp>>, <<0, 10000>>, <<20000, 10000>>,
                                     indices, 0))
      : indices \in IndexBuffers }

EdgeInit ==
    /\ GenerateIdle /\ BakeIdle
    /\ log = <<>>
    /\ seamPc = "input"
    /\ seamModel \in EdgeModels
    /\ seamUvChannel \in {0}
    /\ seamResult = <<>>
    /\ seamVariant = <<>>
    /\ seamVariantResult = <<>>
    /\ edgeList = <<>>

\* "Read all edges" and "Remove duplicates" of the LOD
ReadEdges ==
    /\ seamPc = "input"
    /\ edgeList' = GeometryEdges(seamModel.geometries[1].lods[1])
    /\ seamPc' = "edges"
    /\ UNCHANGED <<seamModel, seamUvChannel, seamResult, seamVariant, seamVariantResult,
                   log, inputVars, generateVars, bakeVars>>

EdgeNext == ReadEdges

EdgeSpec == EdgeInit /\ [][EdgeNext]_vars

\* The two endpoints of the k-th edge (k in 0..2) of face f, as a set
FaceEdge(lod, f, k) == { lod.indices[3 * f + k + 1], lod.indices[3 * f + ((k + 1) % 3) + 1] }

\* The undirected edges of the triangles of a LOD, each a set of endpoints
TriangleEdges(lod) ==
    { FaceEdge(lod, f, k) : f \in 0..((Len(lod.indices) \div 3) - 1), k \in 0..2 }

\* C30: MakeOrderedIndexPair gives the same pair for (a, b) and (b, a), with
\* first <= second; and the edge list of a LOD, once sorted and deduplicated,
\* holds every undirected edge of its triangles, and nothing else, exactly
\* once.
C30_EachUndirectedEdgeOnce ==
    /\ \A a \in EdgeIndexChoices, b \in EdgeIndexChoices :
          /\ MakeOrderedIndexPair(a, b) = MakeOrderedIndexPair(b, a)
          /\ MakeOrderedIndexPair(a, b)[1] <= MakeOrderedIndexPair(a, b)[2]
          /\ {MakeOrderedIndexPair(a, b)[1], MakeOrderedIndexPair(a, b)[2]} = {a, b}
    /\ seamPc = "edges" =>
          /\ \A i \in 1..Len(edgeList) : edgeList[i][1] <= edgeList[i][2]
          /\ { {edgeList[i][1], edgeList[i][2]} : i \in 1..Len(edgeList) } = TriangleEdges(TheLod)
          /\ \A i \in 1..Len(edgeList), j \in 1..Len(edgeList) :
                i # j => {edgeList[i][1], edgeList[i][2]} # {edgeList[j][1], edgeList[j][2]}

\* C30 witness: two faces share an edge that one lists as (a, b) and the
\* other as (b, a), not one after the other; the list holds five edges
C30_Witness ==
    /\ seamPc = "edges"
    /\ TheLod.indices = <<0, 1, 2, 1, 0, 3>>
    /\ Len(edgeList) = 5
    /\ Cardinality({ k \in 1..Len(RawGeometryEdges(TheLod)) : RawGeometryEdges(TheLod)[k] = <<0, 1>> }) = 2

=============================================================================
